---- MODULE Spec2Model ----
(***************************************************************************)
(* Verification model of the tides repository: the time normaliser, the   *)
(* three-day event series builder, the interpolation strategies and the   *)
(* sampler of the display scripts.                                         *)
(*                                                                         *)
(* Strings are sequences of one-character strings, so that str.lstrip,    *)
(* str.strip, str.replace, the "in" test and datetime.strptime are        *)
(* modelled by what they do to the characters.  Real numbers are exact    *)
(* rationals <<n, d>> with d > 0 in lowest terms.                           *)
(***************************************************************************)
EXTENDS Integers, Sequences, FiniteSets, TLC

VARIABLES
    time_str,      \* argument of time_str_to_minutes / parse_time
    want,          \* hour*60+minute the string was written for, or None
    got_tsm,       \* result of time_str_to_minutes(time_str)
    got_pt,        \* result of parse_time(time_str)
    kind,          \* "tide": the buckets hold tide entries; "stage": measurements
    prior,         \* raw entries of yesterday's date key
    today,         \* raw entries of today's date key
    next,          \* raw entries of tomorrow's date key
    events,        \* the combined series, a sequence of <<minute, value>>
    status,        \* "input", "built", "queried", "predicted"
    t_min,         \* the last query minute (status "queried")
    result,        \* what each strategy returned for t_min
    predicted,     \* last call of interpolate_predicted_level: [hm, val]
    sample_args,   \* arguments of sample_tides: events, step, deviation, start, end
    sample_status, \* "idle", "done", or "raise" when sample_tides raised
    rows,          \* the rows sample_tides returned
    build,         \* outcome of the merges: [all_events, loaded]
    draw_args,     \* arguments of draw_tide_waveform / the stage-only plot
    drawing,       \* what the renderer did: outcome, points and segments per curve
    x_points,      \* the minutes the Lagrange variant selected for the last query
    fs,            \* tides.json, its temporary file, and the fetcher and display loops
    fetcher        \* the fetcher function being exercised and its locals and globals

parse_vars == <<time_str, want, got_tsm, got_pt>>
series_vars == <<kind, prior, today, next, events, status, t_min, result, predicted>>

sample_vars == <<sample_args, sample_status, rows>>

build_vars == <<build>>
draw_vars == <<draw_args, drawing>>
poly_vars == <<x_points>>
file_vars == <<fs, fetcher>>

aux_vars == <<build_vars, draw_vars, poly_vars, file_vars>>

vars == <<parse_vars, series_vars, sample_vars, aux_vars>>

\* Results: a number is the pair <<n, d>> (the rational n/d, an integer is
\* <<n, 1>>); Python's None, an uncaught exception and "not called yet" are
\* one-element tuples, so that any two results can be compared.
None == <<"None">>
Raise == <<"Raise">>
Unset == <<"Unset">>
IsNum(r) == Len(r) = 2
Num(n) == <<n, 1>>

----------------------------------------------------------------------------
(* Characters and Python string methods *)

DigitVal ==
    ("0" :> 0) @@ ("1" :> 1) @@ ("2" :> 2) @@ ("3" :> 3) @@ ("4" :> 4) @@
    ("5" :> 5) @@ ("6" :> 6) @@ ("7" :> 7) @@ ("8" :> 8) @@ ("9" :> 9)

DigitChar == <<"0", "1", "2", "3", "4", "5", "6", "7", "8", "9">>

IsDigit(c) == c \in DOMAIN DigitVal

AllDigits(s) == \A i \in 1..Len(s) : IsDigit(s[i])

\* needle in s  (Python: needle in s)
Contains(s, needle) ==
    \E i \in 1..(Len(s) - Len(needle) + 1) :
        SubSeq(s, i, i + Len(needle) - 1) = needle

\* index of the first occurrence of character c in s, 0 when absent
IndexOf(s, c) ==
    IF \E i \in 1..Len(s) : s[i] = c
    THEN CHOOSE i \in 1..Len(s) : s[i] = c /\ \A j \in 1..(i - 1) : s[j] # c
    ELSE 0

\* s.lstrip(c): every leading c removed
RECURSIVE lstrip(_, _)
lstrip(s, c) ==
    IF Len(s) > 0 /\ s[1] = c THEN lstrip(Tail(s), c) ELSE s

\* s.rstrip(c): every trailing c removed
RECURSIVE rstrip(_, _)
rstrip(s, c) ==
    IF Len(s) > 0 /\ s[Len(s)] = c THEN rstrip(SubSeq(s, 1, Len(s) - 1), c) ELSE s

\* s.strip(c): both ends
strip(s, c) == rstrip(lstrip(s, c), c)

\* value of a string of decimal digits
RECURSIVE NumVal(_)
NumVal(ds) ==
    IF Len(ds) = 0 THEN 0
    ELSE 10 * NumVal(SubSeq(ds, 1, Len(ds) - 1)) + DigitVal[ds[Len(ds)]]

----------------------------------------------------------------------------
(* datetime.strptime for the two formats the repository uses.  The         *)
(* directives are the regular expressions of CPython's _strptime:          *)
(*   %H  2[0-3]|[0-1]\d|\d     %M  [0-5]\d|\d                              *)
(*   %I  1[0-2]|0[1-9]|[1-9]   %p  am|pm (case-insensitive)                *)
(* a blank in the format is \s+, and unconverted trailing data raises.     *)

MatchH(h) ==
    /\ Len(h) \in {1, 2}
    /\ AllDigits(h)
    /\ Len(h) = 2 => NumVal(h) <= 23

MatchM(m) ==
    /\ Len(m) \in {1, 2}
    /\ AllDigits(m)
    /\ Len(m) = 2 => NumVal(m) <= 59

MatchI(h) ==
    /\ Len(h) \in {1, 2}
    /\ AllDigits(h)
    /\ NumVal(h) \in 1..12

IsAM(p) == Len(p) = 2 /\ p[1] \in {"A", "a"} /\ p[2] \in {"M", "m"}
IsPM(p) == Len(p) = 2 /\ p[1] \in {"P", "p"} /\ p[2] \in {"M", "m"}

\* datetime.strptime(s, "%H:%M"): hour*60+minute of the result, or Raise
strptime_HM(s) ==
    LET k == IndexOf(s, ":")
        h == SubSeq(s, 1, k - 1)
        m == SubSeq(s, k + 1, Len(s))
    IN  IF k > 0 /\ MatchH(h) /\ MatchM(m)
        THEN Num(NumVal(h) * 60 + NumVal(m))
        ELSE Raise

\* datetime.strptime(s, "%I:%M %p"): hour*60+minute of the result, or Raise
strptime_IMp(s) ==
    LET k  == IndexOf(s, ":")
        b  == IndexOf(s, " ")
        h  == SubSeq(s, 1, k - 1)
        m  == SubSeq(s, k + 1, b - 1)
        p  == lstrip(SubSeq(s, b, Len(s)), " ")
        hr == (NumVal(h) % 12) + (IF IsPM(p) THEN 12 ELSE 0)
    IN  IF k > 0 /\ b > k /\ MatchI(h) /\ MatchM(m) /\ (IsAM(p) \/ IsPM(p))
        THEN Num(hr * 60 + NumVal(m))
        ELSE Raise

----------------------------------------------------------------------------
(* Time normaliser *)

AMstr == <<"A", "M">>
PMstr == <<"P", "M">>

\* time_str_to_minutes of the display scripts: lstrip("0") before %H:%M and
\* a bare except that turns every failure into None
time_str_to_minutes(s) ==
    LET r == IF Contains(s, AMstr) \/ Contains(s, PMstr)
             THEN strptime_IMp(s)
             ELSE strptime_HM(lstrip(s, "0"))
    IN  IF r = Raise THEN None ELSE r

\* parse_time of the diagnostic scripts: strip("0") on both ends, no except
parse_time(s) ==
    IF Contains(s, AMstr) \/ Contains(s, PMstr)
    THEN strptime_IMp(s)
    ELSE strptime_HM(strip(s, "0"))

----------------------------------------------------------------------------
(* Inputs of the time normaliser: strings written for a known time of day  *)

Hours == 0..23
MinuteSamples == {0, 5, 30, 59}

Fmt2(n) == <<DigitChar[(n \div 10) + 1], DigitChar[(n % 10) + 1]>>
FmtN(n) == IF n < 10 THEN <<DigitChar[n + 1]>> ELSE Fmt2(n)

\* "HH:MM"
Fmt24Padded(h, m) == Fmt2(h) \o <<":">> \o Fmt2(m)
\* "H:MM"
Fmt24Bare(h, m) == FmtN(h) \o <<":">> \o Fmt2(m)
\* "H:MM AM" / "H:MM PM", the form strftime("%I:%M %p").lstrip("0") writes
Fmt12(h, m) ==
    FmtN(IF h % 12 = 0 THEN 12 ELSE h % 12) \o <<":">> \o Fmt2(m)
        \o <<" ">> \o (IF h < 12 THEN AMstr ELSE PMstr)

ValidTimeStrings ==
    { <<Fmt24Padded(h, m), Num(h * 60 + m)>> : h \in Hours, m \in MinuteSamples }
    \cup { <<Fmt24Bare(h, m), Num(h * 60 + m)>> : h \in Hours, m \in MinuteSamples }
    \cup { <<Fmt12(h, m), Num(h * 60 + m)>> : h \in Hours, m \in MinuteSamples }

GarbageTimeStrings ==
    { <<>>, <<"n", "o", "o", "n">>, <<"2", "4", ":", "0", "0">>,
      <<"7", ":", "6", "0">>, <<"7", "3", "0">>, <<"1", "3", ":", "0", "0", " ", "P", "M">>,
      <<"0", ":", "3", "0", " ", "A", "M">>, <<"2", ":", "3", "0", "P", "M">> }

NoResult == [half |-> Unset, lin |-> Unset, poly |-> Unset, lin_stage |-> Unset]
NoPrediction == [hm |-> <<>>, val |-> Unset]

NoSampleArgs == [events |-> <<>>, step |-> 10, deviation |-> Num(0),
                 start_min |-> None, end_min |-> None]

NoBuild == [all_events |-> Unset, loaded |-> "idle"]
NoDrawArgs == [plot |-> "none"]
NoDrawing == [outcome |-> "idle"]

BuildIdle == build = NoBuild
DrawIdle == draw_args = NoDrawArgs /\ drawing = NoDrawing
PolyIdle == x_points = <<>>

NoFs == [phase |-> "idle"]
NoFetcher == [call |-> "none"]
FetcherIdle == fetcher = NoFetcher
FileIdle == fs = NoFs /\ FetcherIdle

\* the variables of the merge, renderer, window and file models while they are
\* not exercised
AuxIdle == BuildIdle /\ DrawIdle /\ PolyIdle /\ FileIdle

\* the sampler variables while sample_tides is not exercised
SampleIdle ==
    /\ sample_args = NoSampleArgs
    /\ sample_status = "idle"
    /\ rows = <<>>

\* the series variables while only the time normaliser is exercised
SeriesIdle ==
    /\ kind = "tide"
    /\ prior = <<>> /\ today = <<>> /\ next = <<>>
    /\ events = <<>>
    /\ status = "input"
    /\ t_min = 0
    /\ result = NoResult
    /\ predicted = NoPrediction

ParseInit ==
    /\ \/ \E p \in ValidTimeStrings : (time_str = p[1] /\ want = p[2])
       \/ \E g \in GarbageTimeStrings : (time_str = g /\ want = None)
    /\ got_tsm = Unset
    /\ got_pt = Unset
    /\ SeriesIdle
    /\ SampleIdle
    /\ AuxIdle

CallTimeStrToMinutes ==
    /\ got_tsm = Unset
    /\ got_tsm' = time_str_to_minutes(time_str)
    /\ UNCHANGED <<time_str, want, got_pt, series_vars, sample_vars, aux_vars>>

CallParseTime ==
    /\ got_pt = Unset
    /\ got_pt' = parse_time(time_str)
    /\ UNCHANGED <<time_str, want, got_tsm, series_vars, sample_vars, aux_vars>>

ParseNext == CallTimeStrToMinutes \/ CallParseTime

SpecParse == ParseInit /\ [][ParseNext]_vars

----------------------------------------------------------------------------
(* Exact rational arithmetic for Python's float values *)

RECURSIVE GCD(_, _)
GCD(a, b) == IF b = 0 THEN a ELSE GCD(b, a % b)

Abs(n) == IF n < 0 THEN -n ELSE n

\* n/d in lowest terms with a positive denominator (d # 0)
Norm(n, d) ==
    LET g == GCD(Abs(n), Abs(d))
        sgn == IF d < 0 THEN -1 ELSE 1
    IN  <<sgn * (n \div g), sgn * (d \div g)>>

\* sums over the least common denominator and products after cancelling
\* across, so that intermediate integers stay small
RAdd(x, y) ==
    LET g == GCD(x[2], y[2])
    IN  Norm(x[1] * (y[2] \div g) + y[1] * (x[2] \div g), (x[2] \div g) * y[2])
RSub(x, y) == RAdd(x, <<-y[1], y[2]>>)
RMul(x, y) ==
    LET g1 == GCD(Abs(x[1]), y[2])
        g2 == GCD(Abs(y[1]), x[2])
    IN  Norm((x[1] \div g1) * (y[1] \div g2), (x[2] \div g2) * (y[2] \div g1))
RDiv(x, y) ==
    IF y[1] = 0 THEN Norm(x[1] * y[2], x[2] * y[1])
    ELSE RMul(x, IF y[1] < 0 THEN <<-y[2], -y[1]>> ELSE <<y[2], y[1]>>)
RLess(x, y) == x[1] * y[2] < y[1] * x[2]
RLeq(x, y) == x[1] * y[2] <= y[1] * x[2]
Half == <<1, 2>>

\* math.sin(math.pi * frac - math.pi / 2) for 0 <= frac <= 1.  With
\* x = frac - 1/2 this is sin(pi*x), odd in x; on 0 <= y <= 1/2 it is taken as
\* Bhaskara's rational form 16y(1-y) / (5 - 4y(1-y)), which is exact where the
\* sine is rational (frac = 0, 1/3, 1/2, 2/3, 1 give -1, -1/2, 0, 1/2, 1),
\* strictly increasing, and within 0.002 of the sine elsewhere.
SinShifted(frac) ==
    LET x == RSub(frac, Half)
        a == Abs(x[1])
        b == x[2]
        s == Norm(16 * a * (b - a), 5 * b * b - 4 * a * (b - a))
    IN  IF x[1] < 0 THEN <<-s[1], s[2]>> ELSE s

----------------------------------------------------------------------------
(* Height strings: float(height_str.replace("ft", "").strip()) *)

FTstr == <<"f", "t">>

\* s.replace(old, ""): every non-overlapping occurrence of old removed
RECURSIVE remove(_, _)
remove(s, old) ==
    IF Len(s) < Len(old) THEN s
    ELSE IF SubSeq(s, 1, Len(old)) = old
         THEN remove(SubSeq(s, Len(old) + 1, Len(s)), old)
         ELSE <<s[1]>> \o remove(Tail(s), old)

RECURSIVE Pow10(_)
Pow10(n) == IF n = 0 THEN 1 ELSE 10 * Pow10(n - 1)

\* float(s) for decimal literals [sign] digits [. digits]; anything else raises
\* ValueError
float(s) ==
    LET signed == Len(s) > 0 /\ s[1] \in {"-", "+"}
        body == IF signed THEN Tail(s) ELSE s
        k  == IndexOf(body, ".")
        ip == IF k = 0 THEN body ELSE SubSeq(body, 1, k - 1)
        fp == IF k = 0 THEN <<>> ELSE SubSeq(body, k + 1, Len(body))
        mag == NumVal(ip) * Pow10(Len(fp)) + NumVal(fp)
    IN  IF AllDigits(ip) /\ AllDigits(fp) /\ Len(ip) + Len(fp) > 0
        THEN Norm(IF signed /\ s[1] = "-" THEN -mag ELSE mag, Pow10(Len(fp)))
        ELSE Raise

height_of(height_str) == float(strip(remove(height_str, FTstr), " "))

----------------------------------------------------------------------------
(* Event series builder *)

\* Python's tuple order on (minute, value)
EvLess(a, b) == a[1] < b[1] \/ (a[1] = b[1] /\ RLess(a[2], b[2]))

RECURSIVE Insert(_, _)
Insert(sorted, e) ==
    IF Len(sorted) = 0 THEN <<e>>
    ELSE IF EvLess(e, sorted[1]) THEN <<e>> \o sorted
         ELSE <<sorted[1]>> \o Insert(Tail(sorted), e)

\* list.sort() / sorted() on a list of (minute, value) tuples
RECURSIVE SortEvents(_)
SortEvents(evs) ==
    IF Len(evs) = 0 THEN <<>>
    ELSE Insert(SortEvents(SubSeq(evs, 1, Len(evs) - 1)), evs[Len(evs)])

\* parse_tides(tides, offset) of the stage test script: the time is parsed as
\* in time_str_to_minutes, the height with float, and an entry on which either
\* raises is passed over
RECURSIVE parse_tides(_, _)
parse_tides(tides, offset) ==
    IF Len(tides) = 0 THEN <<>>
    ELSE LET e == tides[Len(tides)]
             t == time_str_to_minutes(e[2])
             h == height_of(e[3])
             rest == parse_tides(SubSeq(tides, 1, Len(tides) - 1), offset)
         IN  IF IsNum(t) /\ IsNum(h)
             THEN Append(rest, <<t[1] + offset, h>>)
             ELSE rest

\* parse_stage(stage_list, offset): measurements with both "minutes" and
\* "stage" present become (minutes + offset, float(stage))
RECURSIVE parse_stage(_, _)
parse_stage(stage_list, offset) ==
    IF Len(stage_list) = 0 THEN <<>>
    ELSE LET m == stage_list[Len(stage_list)]
             rest == parse_stage(SubSeq(stage_list, 1, Len(stage_list) - 1), offset)
         IN  IF m.minutes # None /\ m.stage # None
             THEN Append(rest, <<m.minutes[1] + offset, m.stage>>)
             ELSE rest

DayMinutes == 1440

\* the three-bucket merge: parse with offsets -1440, 0, +1440, concatenate, sort
build_series(k, p, t, n) ==
    IF k = "tide"
    THEN SortEvents(parse_tides(p, -DayMinutes) \o parse_tides(t, 0)
                        \o parse_tides(n, DayMinutes))
    ELSE SortEvents(parse_stage(p, -DayMinutes) \o parse_stage(t, 0)
                        \o parse_stage(n, DayMinutes))

----------------------------------------------------------------------------
(* Interpolation strategies *)

\* find_bracket with the left end of each pair excluded
find_bracket_open(t, evs) ==
    LET hits == { i \in 1..(Len(evs) - 1) : evs[i][1] < t /\ t <= evs[i + 1][1] }
    IN  IF hits = {} THEN 0 ELSE CHOOSE i \in hits : \A j \in hits : i <= j

\* the index i of the first pair with events[i].minute <= t <= events[i+1].minute
\* (the "for i in range(len(events) - 1)" scan), 0 when the scan finds none
find_bracket(t, evs) ==
    LET hits == { i \in 1..(Len(evs) - 1) : evs[i][1] <= t /\ t <= evs[i + 1][1] }
    IN  IF hits = {} THEN 0 ELSE CHOOSE i \in hits : \A j \in hits : i <= j

\* frac = (t_min - t1) / (t2 - t1), t1 # t2
frac_of(t, t1, t2) == Norm(t - t1, t2 - t1)

\* linear_segment with the fraction measured from the wrong end
linear_segment_reversed(t, t1, t2, h1, h2) ==
    IF t2 = t1 THEN h1
    ELSE RAdd(h1, RMul(Norm(t2 - t, t2 - t1), RSub(h2, h1)))

\* h1 + frac * (h2 - h1)
linear_segment(t, t1, t2, h1, h2) ==
    IF t2 = t1 THEN h1
    ELSE RAdd(h1, RMul(frac_of(t, t1, t2), RSub(h2, h1)))

\* half_sine with the phase shift of -pi/2 left out: m + a * sin(pi * frac),
\* sin(pi * frac) = sin(pi * (frac + 1/2) - pi / 2) for frac <= 1/2 and
\* sin(pi * (3/2 - frac) - pi / 2) beyond
half_sine_unshifted(t, t1, t2, h1, h2) ==
    IF t2 = t1 THEN h1
    ELSE LET m == RMul(Half, RAdd(h1, h2))
             a == RMul(Half, RSub(h2, h1))
             f == frac_of(t, t1, t2)
             g == IF RLeq(f, Half) THEN RAdd(f, Half) ELSE RSub(<<3, 2>>, f)
         IN  RAdd(m, RMul(a, SinShifted(g)))

\* half_sine(t, t1, t2, h1, h2): m + a * sin(pi * frac - pi / 2)
half_sine(t, t1, t2, h1, h2) ==
    IF t2 = t1 THEN h1
    ELSE LET m == RMul(Half, RAdd(h1, h2))
             a == RMul(Half, RSub(h2, h1))
         IN  RAdd(m, RMul(a, SinShifted(frac_of(t, t1, t2))))

\* linear_interpolate(t_min, events) of the display and stage test scripts
linear_interpolate(t, evs) ==
    IF Len(evs) < 1 THEN None
    ELSE IF t < evs[1][1] THEN evs[1][2]
    ELSE IF t > evs[Len(evs)][1] THEN evs[Len(evs)][2]
    ELSE LET i == find_bracket(t, evs)
         IN  IF i = 0 THEN None
             ELSE linear_segment(t, evs[i][1], evs[i + 1][1], evs[i][2], evs[i + 1][2])

\* linear_interpolate(t_min, events) of stage_only_plot.py: no value outside
\* the series and none for fewer than two points
linear_interpolate_stage_only(t, evs) ==
    IF Len(evs) < 2 THEN None
    ELSE IF t < evs[1][1] THEN None
    ELSE IF t > evs[Len(evs)][1] THEN None
    ELSE LET i == find_bracket(t, evs)
         IN  IF i = 0 THEN None
             ELSE linear_segment(t, evs[i][1], evs[i + 1][1], evs[i][2], evs[i + 1][2])

\* half_sine_interpolate(t_min, events)
half_sine_interpolate(t, evs) ==
    IF Len(evs) < 2 THEN None
    ELSE IF t < evs[1][1] THEN evs[1][2]
    ELSE IF t > evs[Len(evs)][1] THEN evs[Len(evs)][2]
    ELSE LET i == find_bracket(t, evs)
         IN  IF i = 0 THEN None
             ELSE half_sine(t, evs[i][1], evs[i + 1][1], evs[i][2], evs[i + 1][2])

Max(a, b) == IF a > b THEN a ELSE b
Min(a, b) == IF a < b THEN a ELSE b

\* product over j # i of (t_min - x_j) / (x_i - x_j); Raise stands for the
\* ZeroDivisionError of a repeated minute
RECURSIVE lagrange_term(_, _, _, _)
lagrange_term(t, xs, i, j) ==
    IF j > Len(xs) THEN Num(1)
    ELSE IF j = i THEN lagrange_term(t, xs, i, j + 1)
    ELSE IF xs[i] = xs[j] THEN Raise
    ELSE LET rest == lagrange_term(t, xs, i, j + 1)
         IN  IF rest = Raise THEN Raise
             ELSE RMul(Norm(t - xs[j], xs[i] - xs[j]), rest)

\* result += y_i * product, for i = 1 .. len(x_points)
RECURSIVE lagrange_sum(_, _, _, _)
lagrange_sum(t, xs, ys, i) ==
    IF i > Len(xs) THEN Num(0)
    ELSE LET term == lagrange_term(t, xs, i, 1)
             rest == lagrange_sum(t, xs, ys, i + 1)
         IN  IF term = Raise \/ rest = Raise THEN Raise
             ELSE RAdd(RMul(ys[i], term), rest)

\* a window that takes one point less before the bracket
lagrange_window_short(idx, n) == Max(1, idx - 1)..Min(n, idx + 2)

\* the run of points the Lagrange variant uses around bracket idx: the slice
\* [max(0, idx-2) : min(len, idx+3)] of the 0-based code, here 1-based
lagrange_window(idx, n) == Max(1, idx - 2)..Min(n, idx + 2)

\* polynomial_fit_interpolate(t_min, events), the Lagrange variant
polynomial_fit_interpolate(t, evs) ==
    IF Len(evs) < 2 THEN None
    ELSE IF t < evs[1][1] THEN evs[1][2]
    ELSE IF t > evs[Len(evs)][1] THEN evs[Len(evs)][2]
    ELSE LET idx == find_bracket(t, evs)
             w  == lagrange_window(idx, Len(evs))
             lo == CHOOSE k \in w : \A j \in w : k <= j
             xs == [k \in 1..Cardinality(w) |-> evs[lo + k - 1][1]]
             ys == [k \in 1..Cardinality(w) |-> evs[lo + k - 1][2]]
         IN  IF idx = 0 THEN linear_interpolate(t, evs)
             ELSE lagrange_sum(t, xs, ys, 1)

\* interpolate_predicted_level(hour_minute, predictions_for_today) of the
\* fetcher: its own parse (no stripping of zeros), sort, bracket scan, nearest
\* value outside the series; every exception becomes None
RECURSIVE predicted_events(_)
predicted_events(preds) ==
    IF Len(preds) = 0 THEN <<>>
    ELSE LET e == preds[Len(preds)]
             h == height_of(e[3])
             t == IF Contains(e[2], AMstr) \/ Contains(e[2], PMstr)
                  THEN strptime_IMp(e[2])
                  ELSE strptime_HM(e[2])
             rest == predicted_events(SubSeq(preds, 1, Len(preds) - 1))
         IN  IF rest = Raise \/ h = Raise THEN Raise
             ELSE IF t = Raise THEN rest
             ELSE Append(rest, <<t[1], h>>)

interpolate_predicted_level(hour_minute, preds) ==
    LET k == IndexOf(hour_minute, ":")
        hh == SubSeq(hour_minute, 1, k - 1)
        mm == SubSeq(hour_minute, k + 1, Len(hour_minute))
        target == NumVal(hh) * 60 + NumVal(mm)
        parsed == predicted_events(preds)
        evs == SortEvents(parsed)
        i == find_bracket(target, evs)
    IN  IF k = 0 \/ Len(hh) = 0 \/ Len(mm) = 0 \/ ~AllDigits(hh) \/ ~AllDigits(mm)
        THEN None
        ELSE IF parsed = Raise THEN None
        ELSE IF Len(evs) < 2 THEN None
        ELSE IF i # 0
             THEN LET frac == IF evs[i + 1][1] # evs[i][1]
                              THEN frac_of(target, evs[i][1], evs[i + 1][1])
                              ELSE Num(0)
                  IN  RAdd(evs[i][2], RMul(frac, RSub(evs[i + 1][2], evs[i][2])))
        ELSE IF target < evs[1][1] THEN evs[1][2] ELSE evs[Len(evs)][2]

----------------------------------------------------------------------------
(* The series scripts: fill the three day buckets, build the combined      *)
(* series, query the strategies                                            *)

MaxEntries == 2

T2350 == <<"2", "3", ":", "5", "0">>
T0010 == <<"0", "0", ":", "1", "0">>
T1210AM == <<"1", "2", ":", "1", "0", " ", "A", "M">>
H10ft == <<"1", ".", "0", "f", "t">>
H50ft == <<"5", ".", "0", "f", "t">>

\* tide entries (label, time string, height string)
TideEntries ==
    { <<"Low", t, H10ft>> : t \in {T2350, T0010, T1210AM} }
    \cup { <<"High", t, H50ft>> : t \in {T2350, T0010, T1210AM} }

\* stage measurements {"minutes": int, "stage": float}
StageEntries ==
    { [minutes |-> Num(m), stage |-> Num(v)] : m \in {0, 720}, v \in {1, 5} }
    \cup { [minutes |-> None, stage |-> Num(5)] }

EntriesOf(k) == IF k = "tide" THEN TideEntries ELSE StageEntries

\* query minutes: at, between and beyond the minutes the entries can take
QueryMinutes(k) ==
    IF k = "tide"
    THEN {-1431, -1430, -10, 0, 10, 720, 1430, 1440, 2870, 2871}
    ELSE {-1800, -1440, -720, -360, 0, 360, 720, 1440, 2160, 2520}

HourMinutes ==
    { Fmt24Padded(0, 0), Fmt24Padded(0, 10), Fmt24Padded(12, 0), Fmt24Padded(23, 50) }

ParseIdle ==
    /\ time_str = <<>>
    /\ want = None
    /\ got_tsm = Unset
    /\ got_pt = Unset

Init ==
    /\ ParseIdle
    /\ SampleIdle
    /\ AuxIdle
    /\ kind \in {"tide", "stage"}
    /\ prior = <<>> /\ today = <<>> /\ next = <<>>
    /\ events = <<>>
    /\ status = "input"
    /\ t_min = 0
    /\ result = NoResult
    /\ predicted = NoPrediction

\* one more raw entry under a date key of the data file
AddEntry(bucket, e) ==
    /\ status = "input"
    /\ Len(prior) + Len(today) + Len(next) < MaxEntries
    /\ prior' = IF bucket = "prior" THEN Append(prior, e) ELSE prior
    /\ today' = IF bucket = "today" THEN Append(today, e) ELSE today
    /\ next' = IF bucket = "next" THEN Append(next, e) ELSE next
    /\ UNCHANGED <<kind, events, status, t_min, result, predicted, parse_vars, sample_vars, aux_vars>>

\* all_events = sorted(parse(yesterday, -1440) + parse(today, 0) + parse(tomorrow, 1440))
BuildSeries ==
    /\ status = "input"
    /\ events' = build_series(kind, prior, today, next)
    /\ status' = "built"
    /\ UNCHANGED <<kind, prior, today, next, t_min, result, predicted, parse_vars, sample_vars, aux_vars>>

\* one call of each strategy on the combined series; the polynomial fit and
\* the stage-only linear variant are called on stage series only
Interpolate(q) ==
    /\ status \in {"built", "queried"}
    /\ t_min' = q
    /\ result' = [half |-> half_sine_interpolate(q, events),
                  lin |-> linear_interpolate(q, events),
                  poly |-> IF kind = "stage"
                           THEN polynomial_fit_interpolate(q, events) ELSE Unset,
                  lin_stage |-> IF kind = "stage"
                                THEN linear_interpolate_stage_only(q, events) ELSE Unset]
    /\ status' = "queried"
    /\ UNCHANGED <<kind, prior, today, next, events, predicted, parse_vars, sample_vars, aux_vars>>

\* the fetcher's deviation step: predicted level at the observation time from
\* today's predictions
InterpolatePredictedLevel(hm) ==
    /\ kind = "tide"
    /\ status \in {"built", "predicted"}
    /\ predicted' = [hm |-> hm, val |-> interpolate_predicted_level(hm, today)]
    /\ status' = "predicted"
    /\ UNCHANGED <<kind, prior, today, next, events, t_min, result, parse_vars, sample_vars, aux_vars>>

Next ==
    \/ \E b \in {"prior", "today", "next"} : \E e \in EntriesOf(kind) : AddEntry(b, e)
    \/ BuildSeries
    \/ \E q \in QueryMinutes(kind) : Interpolate(q)
    \/ \E hm \in HourMinutes : InterpolatePredictedLevel(hm)

Spec == Init /\ [][Next]_vars

----------------------------------------------------------------------------
(* The sample generator: sample_tides of sample.py *)

\* time_to_minutes(tstr): h, m = map(int, tstr.split(":")); h * 60 + m
time_to_minutes(tstr) ==
    LET k == IndexOf(tstr, ":")
        hh == SubSeq(tstr, 1, k - 1)
        mm == SubSeq(tstr, k + 1, Len(tstr))
    IN  IF k > 0 /\ IndexOf(mm, ":") = 0 /\ Len(hh) > 0 /\ Len(mm) > 0
           /\ AllDigits(hh) /\ AllDigits(mm)
        THEN Num(NumVal(hh) * 60 + NumVal(mm))
        ELSE Raise

\* minutes_to_time(m): f"{(m // 60) % 24:02d}:{m % 60:02d}"
minutes_to_time(m) == Fmt2((m \div 60) % 24) \o <<":">> \o Fmt2(m % 60)

\* round(x, 3): the nearest multiple of 1/1000, a tie to the even one
round3(x) ==
    LET n == x[1] * 1000
        q == n \div x[2]
        twice == 2 * (n - q * x[2])
        up == twice > x[2] \/ (twice = x[2] /\ q % 2 = 1)
    IN  Norm(IF up THEN q + 1 ELSE q, 1000)

\* ev = [(time_to_minutes(ts), float(h)) for ts, h in events]
RECURSIVE sample_events(_)
sample_events(evs) ==
    IF Len(evs) = 0 THEN <<>>
    ELSE LET t == time_to_minutes(evs[Len(evs)][1])
             rest == sample_events(SubSeq(evs, 1, Len(evs) - 1))
         IN  IF rest = Raise \/ t = Raise THEN Raise
             ELSE Append(rest, <<t[1], evs[Len(evs)][2]>>)

\* one pass of the body of "for m in range(start_min, end_min + 1, step)"
sample_row(ev, m, deviation) ==
    LET i == find_bracket(m, ev)
        pred == IF m <= ev[1][1] THEN ev[1][2]
                ELSE IF m >= ev[Len(ev)][1] THEN ev[Len(ev)][2]
                ELSE half_sine(m, ev[i][1], ev[i + 1][1], ev[i][2], ev[i + 1][2])
        disp == RAdd(pred, deviation)
    IN  <<minutes_to_time(m), m, round3(pred), round3(disp)>>

\* the rows of the whole loop, one for each m = start, start + step, ... <= end
sample_loop(ev, start, end, step, deviation) ==
    IF start > end THEN <<>>
    ELSE [k \in 1..((end - start) \div step + 1) |->
              sample_row(ev, start + (k - 1) * step, deviation)]

\* sample_tides(events, step, deviation, start_min, end_min): the rows, or
\* Raise for the ValueError of a bad time string and the IndexError of ev[0]
\* on an empty list
sample_tides(a) ==
    LET parsed == sample_events(a.events)
        ev == SortEvents(parsed)
        start == IF a.start_min = None THEN ev[1][1] ELSE a.start_min[1]
        end == IF a.end_min = None THEN ev[Len(ev)][1] ELSE a.end_min[1]
    IN  IF parsed = Raise THEN Raise
        ELSE IF Len(ev) = 0 /\ (a.start_min = None \/ a.end_min = None) THEN Raise
        ELSE IF Len(ev) = 0 /\ start <= end THEN Raise
        ELSE sample_loop(ev, start, end, a.step, a.deviation)

MaxSampleEvents == 2

\* the extrema of the script's own example
SampleEvents ==
    { <<Fmt24Padded(2, 0), <<1, 2>>>>, <<Fmt24Padded(8, 0), Num(5)>>,
      <<Fmt24Padded(14, 0), Num(1)>>, <<Fmt24Padded(20, 0), <<9, 2>>>> }

SeqsUpTo(S, n) == UNION { [1..k -> S] : k \in 0..n }

SampleInit ==
    /\ ParseIdle
    /\ SeriesIdle
    /\ AuxIdle
    /\ sample_args \in [events : SeqsUpTo(SampleEvents, MaxSampleEvents),
                        step : {10, 15},
                        deviation : {Num(0), <<2, 5>>},
                        start_min : {None, Num(0)},
                        end_min : {None, Num(1430), Num(1440)}]
    /\ sample_status = "idle"
    /\ rows = <<>>

SampleTides ==
    /\ sample_status = "idle"
    /\ LET r == sample_tides(sample_args)
       IN  IF r = Raise
           THEN sample_status' = "raise" /\ rows' = <<>>
           ELSE sample_status' = "done" /\ rows' = r
    /\ UNCHANGED <<sample_args, parse_vars, series_vars, aux_vars>>

SampleNext == SampleTides

SpecSample == SampleInit /\ [][SampleNext]_vars

----------------------------------------------------------------------------
(* Properties of the time normaliser *)

\* C10: parse_time (time_str_to_minutes) returns hour*60+minute for every valid
\* 12-hour AM/PM string and every valid bare 24-hour string HH:MM or H:MM, for
\* every hour 0..23, and returns the failure sentinel, never raising, on an
\* unparseable string.
C10_ParseTimeContract ==
    /\ got_tsm # Unset => got_tsm = want
    /\ got_pt # Unset => got_pt = want

----------------------------------------------------------------------------
(* Properties of the series builder and of the strategies *)

Queried == status = "queried"
First == events[1]
Last == events[Len(events)]

\* C1: for every sorted series with at least 2 points and every query minute
\* m <= S[0].minute, m equal to the first minute included, each of the three
\* strategies returns exactly S[0].value.
C1_FlatBeforeFirst ==
    (Queried /\ Len(events) >= 2 /\ t_min <= First[1]) =>
        /\ result.half = First[2]
        /\ result.lin = First[2]
        /\ kind = "stage" => result.poly = First[2]

\* C2: for every sorted series with at least 2 points and every query minute
\* m >= S[-1].minute, m equal to the last minute included, each of the three
\* strategies returns exactly S[-1].value.
C2_FlatAfterLast ==
    (Queried /\ Len(events) >= 2 /\ t_min >= Last[1]) =>
        /\ result.half = Last[2]
        /\ result.lin = Last[2]
        /\ kind = "stage" => result.poly = Last[2]

\* C3: the combined series of the three-bucket merge has strictly increasing
\* minutes, also when two entries of a day carry the same time of day, and is
\* no longer than the three input lists together.
C3_StrictlyIncreasing ==
    status # "input" =>
        /\ \A i \in 1..(Len(events) - 1) : events[i][1] < events[i + 1][1]
        /\ Len(events) <= Len(prior) + Len(today) + Len(next)

\* the parsed events of the three buckets in input order, before the sort
Observed ==
    IF kind = "tide"
    THEN parse_tides(prior, -DayMinutes) \o parse_tides(today, 0)
             \o parse_tides(next, DayMinutes)
    ELSE parse_stage(prior, -DayMinutes) \o parse_stage(today, 0)
             \o parse_stage(next, DayMinutes)

\* the value observed last for minute m
LastObserved(m) ==
    LET at == { i \in 1..Len(Observed) : Observed[i][1] = m }
    IN  Observed[CHOOSE i \in at : \A j \in at : j <= i][2]

\* C4: when several raw entries map to the same minute, the built series keeps
\* exactly one event for that minute, with the value of the entry observed
\* last in input order.
C4_LastWriteWins ==
    status # "input" =>
        \A i \in 1..Len(Observed) :
            LET m == Observed[i][1]
                at == { j \in 1..Len(events) : events[j][1] = m }
            IN  /\ Cardinality(at) = 1
                /\ \A j \in at : events[j][2] = LastObserved(m)

StrictlyBetween(r, v1, v2) ==
    /\ IsNum(r)
    /\ \/ RLess(v1, r) /\ RLess(r, v2)
       \/ RLess(v2, r) /\ RLess(r, v1)

\* the minute of day a tide entry is written for, read as the fetcher's
\* deviation step reads it (no stripping)
WrittenMinute(e) ==
    IF Contains(e[2], AMstr) \/ Contains(e[2], PMstr)
    THEN strptime_IMp(e[2]) ELSE strptime_HM(e[2])

\* C5: with yesterday's last entry at 23:50 (v1) and today's first entry at
\* 00:10 (v2 # v1), half-sine and linear interpolation of the combined series
\* at minute 0 lie strictly between v1 and v2.
C5_MidnightContinuity ==
    (/\ Queried /\ kind = "tide" /\ t_min = 0
     /\ Len(prior) > 0 /\ Len(today) > 0
     /\ WrittenMinute(prior[Len(prior)]) = Num(1430)
     /\ WrittenMinute(today[1]) = Num(10)
     /\ height_of(prior[Len(prior)][3]) # height_of(today[1][3])) =>
        LET v1 == height_of(prior[Len(prior)][3])
            v2 == height_of(today[1][3])
        IN  /\ StrictlyBetween(result.half, v1, v2)
            /\ StrictlyBetween(result.lin, v1, v2)

\* C6: half-sine and polynomial interpolation return None for fewer than 2
\* points, and linear interpolation on a single-point series [(t0, v0)]
\* returns v0 for every query, before, at or after t0.
C6_MinimumPointCounts ==
    (Queried /\ Len(events) < 2) =>
        /\ result.half = None
        /\ kind = "stage" => result.poly = None
        /\ Len(events) = 1 => result.lin = First[2]

\* C7: for the empty series every strategy returns None at every query minute,
\* and sampling the empty series over the display window yields an empty point
\* sequence without raising.
C7_EmptySeriesSamplesEmpty ==
    /\ (Queried /\ Len(events) = 0) =>
           /\ result.half = None /\ result.lin = None
           /\ kind = "stage" => result.poly = None
    /\ (sample_status # "idle" /\ sample_args.events = <<>>) =>
           sample_status = "done" /\ rows = <<>>

\* the bracket the scan selects for the last query
Bracket == find_bracket(t_min, events)
InBracket == Queried /\ Len(events) >= 2 /\ Bracket # 0
B1 == events[Bracket]
B2 == events[Bracket + 1]

TargetOf(hm) ==
    LET k == IndexOf(hm, ":")
    IN  NumVal(SubSeq(hm, 1, k - 1)) * 60 + NumVal(SubSeq(hm, k + 1, Len(hm)))

\* the sorted events interpolate_predicted_level works on
PredictedSeries == SortEvents(predicted_events(today))

\* r is the left value at the left end and the right value at the right end
\* of the bracket the scan selects for q
ExactAtEnds(q, r, evs) ==
    LET i == find_bracket(q, evs)
    IN  (Len(evs) >= 2 /\ i # 0 /\ evs[i][1] < evs[i + 1][1]) =>
            /\ q = evs[i][1] => r = evs[i][2]
            /\ q = evs[i + 1][1] => r = evs[i + 1][2]

\* two queries q1 <= q2 of one bracket give results ordered as h1 and h2 are
OrderedWithin(q1, r1, q2, r2, evs) ==
    LET i == find_bracket(q1, evs)
    IN  (/\ Len(evs) >= 2 /\ i # 0 /\ find_bracket(q2, evs) = i
         /\ evs[i][1] < evs[i + 1][1] /\ q1 <= q2) =>
            /\ IsNum(r1) /\ IsNum(r2)
            /\ RLeq(evs[i][2], evs[i + 1][2]) => RLeq(r1, r2)
            /\ RLeq(evs[i + 1][2], evs[i][2]) => RLeq(r2, r1)

C9_Step ==
    /\ status' = "queried" => ExactAtEnds(t_min', result'.lin, events')
    /\ (status = "queried" /\ status' = "queried") =>
           OrderedWithin(t_min, result.lin, t_min', result'.lin, events)
    /\ status' = "predicted" =>
           ExactAtEnds(TargetOf(predicted'.hm), predicted'.val, PredictedSeries)
    /\ (status = "predicted" /\ status' = "predicted") =>
           OrderedWithin(TargetOf(predicted.hm), predicted.val,
                         TargetOf(predicted'.hm), predicted'.val, PredictedSeries)

-----------------------------------------------------------------------------
(* The merge of the display: parse_tides and parse_stage_history inside     *)
(* draw_tide_waveform, beside the merge of the stage test script            *)

\* parse_tides(tides, day_offset_mins) of draw_tide_waveform: float() is
\* called on every entry outside any try, so one non-numeric height raises
\* ValueError out of the whole call; an entry whose time is None is skipped
RECURSIVE parse_tides_display(_, _)
parse_tides_display(tides, day_offset_mins) ==
    IF Len(tides) = 0 THEN <<>>
    ELSE LET e == tides[Len(tides)]
             t == time_str_to_minutes(e[2])
             h == height_of(e[3])
             rest == parse_tides_display(SubSeq(tides, 1, Len(tides) - 1),
                                         day_offset_mins)
         IN  IF rest = Raise \/ h = Raise THEN Raise
             ELSE IF t # None THEN Append(rest, <<t[1] + day_offset_mins, h>>)
             ELSE rest

\* all_events_* of draw_tide_waveform: three parses, extended in order, sorted
merge_display(k, p, t, n) ==
    IF k = "tide"
    THEN LET a == parse_tides_display(p, -DayMinutes)
             b == parse_tides_display(t, 0)
             c == parse_tides_display(n, DayMinutes)
         IN  IF a = Raise \/ b = Raise \/ c = Raise THEN Raise
             ELSE SortEvents(a \o b \o c)
    ELSE SortEvents(parse_stage(p, -DayMinutes) \o parse_stage(t, 0)
                        \o parse_stage(n, DayMinutes))

MaxBuildEntries == 3

T0600AM == <<"6", ":", "0", "0", " ", "A", "M">>
T1200PM == <<"1", "2", ":", "0", "0", " ", "P", "M">>
T0600PM == <<"6", ":", "0", "0", " ", "P", "M">>
Tnoon == <<"n", "o", "o", "n">>
H70 == <<"7", ".", "0">>
Hdashes == <<"-", "-">>

\* two well-formed entries, one with an unparseable time, one whose height has
\* no unit suffix, one whose height is not a number
BuildTideEntries ==
    { <<"Low", T0600AM, H10ft>>, <<"High", T1200PM, H50ft>>,
      <<"High", Tnoon, H50ft>>, <<"High", T0600PM, H70>>,
      <<"Low", T0600PM, Hdashes>> }

BuildEntriesOf(k) == IF k = "tide" THEN BuildTideEntries ELSE StageEntries

BuildInit ==
    /\ ParseIdle
    /\ SampleIdle
    /\ AuxIdle
    /\ kind \in {"tide", "stage"}
    /\ \E a, b, c \in 0..MaxBuildEntries :
          /\ a + b + c <= MaxBuildEntries
          /\ prior \in [1..a -> BuildEntriesOf(kind)]
          /\ today \in [1..b -> BuildEntriesOf(kind)]
          /\ next \in [1..c -> BuildEntriesOf(kind)]
    /\ events = <<>>
    /\ status = "input"
    /\ t_min = 0
    /\ result = NoResult
    /\ predicted = NoPrediction

\* both merges on the same buckets; the stage test script goes on to print
\* all_events_jenner[0][0], which raises IndexError on the empty series
MergeBuckets ==
    /\ status = "input"
    /\ events' = build_series(kind, prior, today, next)
    /\ status' = "built"
    /\ build' = [all_events |-> merge_display(kind, prior, today, next),
                 loaded |-> IF kind = "stage" /\ events' = <<>>
                            THEN "raise" ELSE "ok"]
    /\ UNCHANGED <<kind, prior, today, next, t_min, result, predicted,
                   parse_vars, sample_vars, draw_vars, poly_vars, file_vars>>

BuildNext == MergeBuckets

SpecBuild == BuildInit /\ [][BuildNext]_vars

\* a tide entry with a parseable time and a numeric height carrying the unit
WellFormed(e) ==
    /\ time_str_to_minutes(e[2]) # None
    /\ Contains(e[3], FTstr)
    /\ height_of(e[3]) # Raise

RECURSIVE WellFormedOnly(_)
WellFormedOnly(tides) ==
    IF Len(tides) = 0 THEN <<>>
    ELSE IF WellFormed(tides[1]) THEN <<tides[1]>> \o WellFormedOnly(Tail(tides))
    ELSE WellFormedOnly(Tail(tides))

\* the series of the well-formed entries alone
WellFormedSeries ==
    build_series("tide", WellFormedOnly(prior), WellFormedOnly(today),
                 WellFormedOnly(next))

\* C11: a tide entry with an unparseable time, a height without the unit
\* suffix or a non-numeric height is dropped, every well-formed entry of all
\* three buckets still appears, and the construction never aborts.
C11_MalformedDropped ==
    (status = "built" /\ build # NoBuild /\ kind = "tide") =>
        /\ build.all_events # Raise
        /\ build.all_events = WellFormedSeries
        /\ events = WellFormedSeries

\* the bracket interpolate_predicted_level selects for its target minute
PredictedBracket == find_bracket(TargetOf(predicted.hm), PredictedSeries)

\* C12: when the query falls on a degenerate bracket (t1 = t2) every strategy,
\* half-sine, linear and the Lagrange polynomial, and the fetcher's
\* interpolate_predicted_level return the left event's value, and none
\* divides by zero.
C12_DegenerateBracketLeftValue ==
    /\ (InBracket /\ B1[1] = B2[1]) =>
           /\ result.half = B1[2]
           /\ result.lin = B1[2]
           /\ kind = "stage" => result.poly = B1[2]
    /\ (/\ status = "predicted" /\ Len(PredictedSeries) >= 2
        /\ PredictedBracket # 0
        /\ PredictedSeries[PredictedBracket][1]
               = PredictedSeries[PredictedBracket + 1][1]) =>
           predicted.val = PredictedSeries[PredictedBracket][2]

\* the points the Lagrange variant selects for the last query repeat a minute
RepeatedMinuteSelected ==
    \E i, j \in lagrange_window(Bracket, Len(events)) :
        i # j /\ events[i][1] = events[j][1]

\* C13: whenever the polynomial fit cannot be evaluated for a query inside the
\* series range (a repeated minute among the selected points, too few points)
\* polynomial_fit_interpolate returns what linear interpolation returns for
\* the bracket; it neither raises nor returns None.
C13_FitFailureFallsBackToLinear ==
    (/\ Queried /\ kind = "stage" /\ Len(events) >= 1
     /\ First[1] <= t_min /\ t_min <= Last[1]
     /\ (Len(events) < 2 \/ RepeatedMinuteSelected)) =>
        /\ result.poly # Raise
        /\ result.poly # None
        /\ result.poly = result.lin

-----------------------------------------------------------------------------
(* The polynomial strategy on series of distinct minutes: the Lagrange      *)
(* variant with the points it selects, and the numpy variant                *)

\* x_points = times[start_idx:end_idx] of the Lagrange variant
x_points_selected(t, evs) ==
    LET idx == find_bracket(t, evs)
        w  == lagrange_window(idx, Len(evs))
        lo == CHOOSE k \in w : \A j \in w : k <= j
    IN  IF Len(evs) < 2 \/ idx = 0 THEN <<>>
        ELSE [k \in 1..Cardinality(w) |-> evs[lo + k - 1][1]]

\* the tuple <<f[1], ..., f[n]>>
RECURSIVE Vec(_, _)
Vec(f, n) == IF n = 0 THEN <<>> ELSE Append(Vec(f, n - 1), f[n])

RECURSIVE RSum(_, _)
RSum(f, n) == IF n = 0 THEN Num(0) ELSE RAdd(RSum(f, n - 1), f[n])

\* sum of u[i] * v[i] over the n sample points
Dot(u, v, n) == RSum([i \in 1..n |-> RMul(u[i], v[i])], n)

\* the weight of point i in the divided difference over points j..hi: the
\* product of 1 / (x_i - x_j)
RECURSIVE DividedDifferenceWeight(_, _, _, _)
DividedDifferenceWeight(xs, i, j, hi) ==
    IF j > hi THEN Num(1)
    ELSE IF j = i THEN DividedDifferenceWeight(xs, i, j + 1, hi)
    ELSE RMul(Norm(1, xs[i] - xs[j]), DividedDifferenceWeight(xs, i, j + 1, hi))

\* the divided difference of order degree + 1 over points m .. m + degree + 1
\* as a vector over the sample points; it vanishes on every polynomial of at
\* most the given degree
DividedDifference(m, xs, degree) ==
    Vec([i \in 1..Len(xs) |->
            IF i < m \/ i > m + degree + 1 THEN Num(0)
            ELSE DividedDifferenceWeight(xs, i, m, m + degree + 1)], Len(xs))

\* w without its component along u
Project(w, u) ==
    LET n == Len(u)
        c == RDiv(Dot(u, w, n), Dot(u, u, n))
    IN  Vec([i \in 1..n |-> RSub(w[i], RMul(c, u[i]))], n)

\* w without its components along the first l divided differences, made
\* orthogonal to one another (Gram-Schmidt)
RECURSIVE Reduce(_, _, _, _)
Reduce(w, l, xs, degree) ==
    IF l = 0 THEN w
    ELSE Reduce(Project(w, Reduce(DividedDifference(l, xs, degree), l - 1, xs, degree)),
                l - 1, xs, degree)

\* np.poly1d(np.polyfit(times, values, degree))(t_min): the least-squares
\* polynomial of the given degree over all the points, evaluated at t. The
\* fitted values are the values without their part orthogonal to the
\* polynomials of that degree; the polynomial is the one through degree + 1
\* of the fitted values
polyfit_eval(t, xs, ys, degree) ==
    LET n == Len(xs)
        fitted == Reduce(ys, n - degree - 1, xs, degree)
    IN  lagrange_sum(t, [k \in 1..(degree + 1) |-> xs[k]],
                     [k \in 1..(degree + 1) |-> fitted[k]], 1)

\* polynomial_fit_interpolate of the display test, the numpy variant: a cubic
\* least-squares fit over all events; where numpy cannot be imported the
\* except clause returns linear_interpolate
polynomial_fit_interpolate_numpy(t, evs, numpy) ==
    IF Len(evs) < 2 THEN None
    ELSE IF t < evs[1][1] THEN evs[1][2]
    ELSE IF t > evs[Len(evs)][1] THEN evs[Len(evs)][2]
    ELSE IF ~numpy THEN linear_interpolate(t, evs)
    ELSE polyfit_eval(t, [i \in 1..Len(evs) |-> evs[i][1]],
                      [i \in 1..Len(evs) |-> evs[i][2]], Min(3, Len(evs) - 1))

MaxPoints == 6

\* minutes and values the stage series are drawn from
PolyMinutes == 0..6
PolyValues == {Num(1), Num(5)}
PolyQueries == 0..6

\* the k-th smallest element of a set of integers
Kth(S, k) == CHOOSE x \in S : Cardinality({y \in S : y < x}) = k - 1

PolyInit ==
    /\ ParseIdle
    /\ SampleIdle
    /\ AuxIdle
    /\ kind = "stage"
    /\ prior = <<>> /\ today = <<>> /\ next = <<>>
    /\ \E S \in SUBSET PolyMinutes :
          /\ Cardinality(S) >= 2 /\ Cardinality(S) <= MaxPoints
          /\ \E v \in [S -> PolyValues] :
                events = [k \in 1..Cardinality(S) |-> <<Kth(S, k), v[Kth(S, k)]>>]
    /\ status = "built"
    /\ t_min = 0
    /\ result = NoResult
    /\ predicted = NoPrediction

\* one query of the polynomial strategy, in both variants
PolyQuery(q, numpy) ==
    /\ status = "built"
    /\ status' = "queried"
    /\ t_min' = q
    /\ x_points' = x_points_selected(q, events)
    /\ result' = [half |-> Unset,
                  lin |-> linear_interpolate(q, events),
                  poly |-> polynomial_fit_interpolate(q, events),
                  lin_stage |-> Unset,
                  numpy |-> numpy,
                  fit |-> polynomial_fit_interpolate_numpy(q, events, numpy)]
    /\ UNCHANGED <<kind, prior, today, next, events, predicted, parse_vars,
                   sample_vars, build_vars, draw_vars, file_vars>>

PolyNext == \E q \in PolyQueries, numpy \in BOOLEAN : PolyQuery(q, numpy)

SpecPoly == PolyInit /\ [][PolyNext]_vars

\* the query lies inside the series range, so that a bracket is looked up
InsideQuery ==
    /\ status = "queried"
    /\ x_points # <<>>
    /\ First[1] <= t_min /\ t_min <= Last[1]

\* the bracket index i of the query: times[i] <= query <= times[i + 1]
BracketIdx == find_bracket(t_min, events)

\* the index in the series of the first selected point
WindowStart == CHOOSE k \in 1..Len(events) : events[k][1] = x_points[1]

WindowEnd == WindowStart + Len(x_points) - 1

\* at most 5 points, a contiguous run of the series, holding both bracketing
\* points, with 2 points before the bracket unless the series start clips
WindowAroundBracket ==
    /\ Len(x_points) <= 5
    /\ WindowEnd <= Len(events)
    /\ \A k \in 1..Len(x_points) : x_points[k] = events[WindowStart + k - 1][1]
    /\ WindowStart <= BracketIdx /\ BracketIdx + 1 <= WindowEnd
    /\ BracketIdx - WindowStart = Min(2, BracketIdx - 1)

\* C14 as stated: the Lagrange variant selects a contiguous run of at most 5
\* series points that contains both bracketing points, with 2 points before
\* the bracket and 2 points after it, fewer only where the series ends clip.
C14_TwoBeforeTwoAfter ==
    InsideQuery =>
        /\ WindowAroundBracket
        /\ WindowEnd - (BracketIdx + 1) = Min(2, Len(events) - (BracketIdx + 1))

\* C14 amended: the Lagrange variant selects a contiguous run of at most 5
\* series points that contains both bracketing points, with 2 points before
\* the bracket and 1 point after it (the run is centred on the left
\* bracketing point), fewer only where the series ends clip.
C14_TwoBeforeOneAfter ==
    InsideQuery =>
        /\ WindowAroundBracket
        /\ WindowEnd - (BracketIdx + 1) = Min(1, Len(events) - (BracketIdx + 1))

\* a full window of 5 points with a second point after the bracket left out
C14_Witness ==
    /\ InsideQuery
    /\ Len(x_points) = 5
    /\ BracketIdx - WindowStart = 2
    /\ Len(events) - (BracketIdx + 1) >= 2

\* the query minute is the minute of event k of the series
QueriedAtEvent(k) == status = "queried" /\ x_points # <<>> /\ events[k][1] = t_min

\* C15: on a series of strictly increasing minutes with at least 2 points,
\* polynomial_fit_interpolate queried at the minute of an event returns that
\* event's value, in the Lagrange variant and in the numpy variant alike.
C15_PassesThroughSamples ==
    \A k \in 1..Len(events) :
        QueriedAtEvent(k) =>
            /\ result.poly = events[k][2]
            /\ result.fit = events[k][2]

-----------------------------------------------------------------------------
(* The renderers: draw_tide_waveform of the display test (three curves in   *)
(* one box), draw_tide_waveform of the portrait test (one curve) and the    *)
(* stage-only plot.  A sampled point is kept as <<minute, value, px, py>>:  *)
(* the code appends (px, py); the minute and the value it was computed from *)
(* are carried along so that properties of the sampling can be stated.      *)

\* int(x) of a float: truncation toward zero
int(x) == IF x[1] >= 0 THEN x[1] \div x[2] ELSE -((-x[1]) \div x[2])

\* a range that leaves out its first element
range_from_step(stop, step) == [k \in 1..((stop - 1) \div step) |-> k * step]

\* list(range(0, stop, step))
range(stop, step) == [k \in 1..((stop + step - 1) \div step) |-> (k - 1) * step]

\* the locals of draw_tide_waveform in the display test
usgs_layout ==
    [margin_left |-> 12, margin_right |-> 3, margin_top |-> 3, margin_bottom |-> 12,
     h_min |-> Num(-2), h_max |-> Num(8), step |-> 15, stop |-> 24 * 60 + 1]

\* the locals of draw_tide_waveform in the portrait test; h_min and h_max are
\* taken from the events there
portrait_layout ==
    [margin_left |-> 3, margin_right |-> 3, margin_top |-> 3, margin_bottom |-> 10,
     step |-> 30, stop |-> 24 * 60]

\* the module constants of the stage-only plot and the range of its loop
stage_only_layout ==
    [WIDTH |-> 600, HEIGHT |-> 250, MARGIN |-> 30, H_MIN |-> Num(-2), H_MAX |-> Num(10),
     step |-> 10, stop |-> 1441]

\* the plot box and the value range: the corners of draw.rectangle, the graph
\* extent the pixel formulas scale by, h_min and the divisor h_range
geometry(x, y, width, height, lay, h_min, h_max, h_range) ==
    [left |-> x + lay.margin_left,
     top |-> y + lay.margin_top,
     right |-> x + width - lay.margin_right,
     bottom |-> y + height - lay.margin_bottom,
     graph_width |-> width - lay.margin_left - lay.margin_right,
     graph_height |-> height - lay.margin_top - lay.margin_bottom,
     h_min |-> h_min, h_max |-> h_max, h_range |-> h_range]

\* px = x + margin_left + int((t_min / 1440) * graph_width)
pixel_x(t, g) == g.left + int(RMul(Norm(t, DayMinutes), Num(g.graph_width)))

\* py = y + height - margin_bottom - int(((h - h_min) / h_range) * graph_height)
pixel_y(h, g) ==
    g.bottom - int(RMul(RDiv(RSub(h, g.h_min), g.h_range), Num(g.graph_height)))

\* the strategy a curve is sampled with: half_sine_interpolate for the tide
\* curves, polynomial_fit_interpolate for the stage curve of the display test,
\* linear_interpolate of the stage-only plot
curve_value(strategy, t, evs, numpy) ==
    IF strategy = "half_sine" THEN half_sine_interpolate(t, evs)
    ELSE IF strategy = "poly" THEN polynomial_fit_interpolate_numpy(t, evs, numpy)
    ELSE linear_interpolate_stage_only(t, evs)

IsPoint(p) == p # None

\* the body of the sampling loop: "if h is not None" append (px, py)
point_of(t, h, g) ==
    IF h = None THEN None ELSE <<t, h, pixel_x(t, g), pixel_y(h, g)>>

\* the sampling loop of one curve: a point for every minute of the range at
\* which the strategy returns a value, none where it returns None
sample_curve(minutes, strategy, evs, numpy, g) ==
    SelectSeq([k \in 1..Len(minutes) |->
                  point_of(minutes[k], curve_value(strategy, minutes[k], evs, numpy), g)],
              IsPoint)

\* the draw.line calls of one curve as pairs of (1-based) point indices:
\* for i in range(0, len(points) - 1, stride): line(points[i], points[i + 1])
segments(points, stride) ==
    IF Len(points) > 1
    THEN [k \in 1..Len(range(Len(points) - 1, stride)) |->
             <<(k - 1) * stride + 1, (k - 1) * stride + 2>>]
    ELSE <<>>

Curves == {"gr", "est", "jenner"}

NoPoints == [c \in Curves |-> <<>>]

\* what a renderer leaves behind when it returns before sampling
not_drawn(outcome, text, printed) ==
    [outcome |-> outcome, text |-> text, printed |-> printed, g |-> <<>>,
     points |-> NoPoints, lines |-> NoPoints]

\* the draw.line loops over the sampled curves of one box, and what the
\* display test prints about its stage curve
draw_lines(points, stride, g, printed) ==
    [outcome |-> "drawn", text |-> <<>>,
     printed |-> IF printed THEN IF Len(points["jenner"]) > 1
                                 THEN <<"Drawing Jenner stage curve">>
                                 ELSE <<"WARNING: Not enough Jenner points">>
                 ELSE <<>>,
     g |-> g, points |-> points,
     lines |-> [c \in Curves |-> segments(points[c], stride[c])]]

\* the sampling loop and the draw.line loops over the curves of one box
drawn(series, strategy, stride, lay, numpy, g, printed) ==
    draw_lines([c \in Curves |->
                   IF strategy[c] = "none" THEN <<>>
                   ELSE sample_curve(range(lay.stop, lay.step), strategy[c],
                                     series[c], numpy, g)],
               stride, g, printed)

\* all_events_gr, all_events_est, all_events_jenner
display_series(a) ==
    [c \in Curves |-> merge_display(IF c = "jenner" THEN "stage" ELSE "tide",
                                    a[c][1], a[c][2], a[c][3])]

\* draw_tide_waveform of the display test: the tide curves by half-sine, the
\* stage curve by the polynomial fit when it has at least 2 events; lines for
\* every segment of gr, every 2nd of est, every 3rd of jenner
draw_tide_waveform(a, series, numpy) ==
    LET L == usgs_layout
    IN  IF series["gr"] = Raise \/ series["est"] = Raise
        THEN not_drawn("raise", <<>>, <<>>)
        ELSE IF Len(series["gr"]) < 2 \/ Len(series["est"]) < 2
        THEN not_drawn("text", <<"Insufficient tide data">>, <<>>)
        ELSE drawn(series,
                   [c \in Curves |-> IF c # "jenner" THEN "half_sine"
                                     ELSE IF Len(series[c]) >= 2 THEN "poly" ELSE "none"],
                   [c \in Curves |-> IF c = "gr" THEN 1 ELSE IF c = "est" THEN 2 ELSE 3],
                   L, numpy,
                   geometry(a.box[1], a.box[2], a.box[3], a.box[4], L,
                            L.h_min, L.h_max, RSub(L.h_max, L.h_min)),
                   TRUE)

\* min(heights) / max(heights) over a non-empty series
RECURSIVE min_height(_)
min_height(evs) ==
    IF Len(evs) = 1 THEN evs[1][2]
    ELSE LET m == min_height(Tail(evs))
         IN  IF RLess(evs[1][2], m) THEN evs[1][2] ELSE m

RECURSIVE max_height(_)
max_height(evs) ==
    IF Len(evs) = 1 THEN evs[1][2]
    ELSE LET m == max_height(Tail(evs))
         IN  IF RLess(m, evs[1][2]) THEN evs[1][2] ELSE m

\* h_range = h_max - h_min; if h_range < 0.1: h_range = 1.0
portrait_range(h_min, h_max) ==
    IF RLess(RSub(h_max, h_min), <<1, 10>>) THEN Num(1) ELSE RSub(h_max, h_min)

\* events of the portrait test: the entries of one day, parsed as in the
\* display test; sorted once the guard is passed
portrait_events(a) == parse_tides_display(a.gr[2], 0)

\* draw_tide_waveform of the portrait test: one curve, the value range taken
\* from the events
draw_tide_waveform_portrait(a, parsed) ==
    LET events_ == IF parsed = Raise THEN Raise ELSE SortEvents(parsed)
        L == portrait_layout
    IN  IF parsed = Raise THEN not_drawn("raise", <<>>, <<>>)
        ELSE IF Len(parsed) < 2 THEN not_drawn("text", <<"No tide data">>, <<>>)
        ELSE drawn([c \in Curves |-> events_],
                   [c \in Curves |-> IF c = "gr" THEN "half_sine" ELSE "none"],
                   [c \in Curves |-> 1], L, FALSE,
                   geometry(a.box[1], a.box[2], a.box[3], a.box[4], L,
                            min_height(events_), max_height(events_),
                            portrait_range(min_height(events_), max_height(events_))),
                   FALSE)

\* events of the stage-only plot: today's measurements with both fields
stage_only_events(a) == SortEvents(parse_stage(a.jenner[2], 0))

\* main of the stage-only plot: today's measurements, sorted; the axes box is
\* (MARGIN, MARGIN, WIDTH - MARGIN, HEIGHT - MARGIN)
stage_only_plot(a, events_) ==
    LET L == stage_only_layout
    IN  IF Len(events_) < 2
        THEN not_drawn("print", <<>>, <<"Not enough data to plot">>)
        ELSE drawn([c \in Curves |-> events_],
                   [c \in Curves |-> IF c = "jenner" THEN "linear" ELSE "none"],
                   [c \in Curves |-> 1], L, FALSE,
                   [left |-> L.MARGIN, top |-> L.MARGIN, right |-> L.WIDTH - L.MARGIN,
                    bottom |-> L.HEIGHT - L.MARGIN,
                    graph_width |-> L.WIDTH - 2 * L.MARGIN,
                    graph_height |-> L.HEIGHT - 2 * L.MARGIN,
                    h_min |-> L.H_MIN, h_max |-> L.H_MAX,
                    h_range |-> RSub(L.H_MAX, L.H_MIN)],
                   FALSE)

H50 == <<"5", ".", "0">>

\* the three day buckets of a tide station: nothing, one event, two events
\* today, events on all three days, two events of equal height
NoTides == <<<<>>, <<>>, <<>>>>
OneTide == <<<<>>, <<<<"Low", T0600AM, H10ft>>>>, <<>>>>
TwoTides == <<<<>>, <<<<"Low", T0600AM, H10ft>>, <<"High", T1200PM, H50ft>>>>, <<>>>>
ThreeDayTides ==
    <<<<<<"High", T0600PM, H70>>>>,
      <<<<"Low", T0600AM, H10ft>>, <<"High", T1200PM, H50ft>>>>,
      <<<<"Low", T0600AM, H10ft>>>>>>
FlatTides == <<<<>>, <<<<"High", T1200PM, H50ft>>, <<"High", T0600PM, H50>>>>, <<>>>>

\* the three day buckets of the stage history
NoStage == <<<<>>, <<>>, <<>>>>
OneStage == <<<<>>, <<[minutes |-> Num(0), stage |-> Num(1)]>>, <<>>>>
TwoStage ==
    <<<<>>, <<[minutes |-> Num(0), stage |-> Num(1)],
              [minutes |-> Num(720), stage |-> Num(5)]>>, <<>>>>
FourStage ==
    <<<<[minutes |-> Num(720), stage |-> Num(5)]>>,
      <<[minutes |-> Num(0), stage |-> Num(1)], [minutes |-> Num(720), stage |-> Num(5)]>>,
      <<[minutes |-> Num(0), stage |-> Num(1)]>>>>

DrawTides == {NoTides, OneTide, TwoTides, ThreeDayTides}
DrawStages == {NoStage, OneStage, TwoStage, FourStage}

\* (x, y, width, height) of the call sites, and a small box at the origin
DrawBoxes(plot) ==
    IF plot = "usgs" THEN {<<10, 275, 280, 120>>, <<0, 0, 100, 50>>}
    ELSE IF plot = "portrait" THEN {<<10, 145, 280, 100>>, <<0, 0, 100, 50>>}
    ELSE {<<0, 0, 600, 250>>}

DrawInit ==
    /\ ParseIdle
    /\ SampleIdle
    /\ BuildIdle
    /\ PolyIdle
    /\ FileIdle
    /\ kind = "tide"
    /\ prior = <<>> /\ today = <<>> /\ next = <<>>
    /\ events = <<>>
    /\ status = "input"
    /\ t_min = 0
    /\ result = NoResult
    /\ predicted = NoPrediction
    /\ \E plot \in {"usgs", "portrait", "stage_only"} :
          \E box \in DrawBoxes(plot) :
             \E gr \in DrawTides \cup {FlatTides}, est \in DrawTides, jenner \in DrawStages :
                /\ plot = "usgs" => gr # FlatTides
                /\ plot = "portrait" => est = NoTides /\ jenner = NoStage
                /\ plot = "stage_only" => gr = NoTides /\ est = NoTides
                /\ draw_args = [plot |-> plot, box |-> box, gr |-> gr, est |-> est,
                                jenner |-> jenner]
    /\ drawing = NoDrawing

DrawTideWaveform(numpy) ==
    /\ draw_args.plot = "usgs"
    /\ drawing = NoDrawing
    /\ \E series \in {display_series(draw_args)} :
          drawing' = draw_tide_waveform(draw_args, series, numpy)
    /\ UNCHANGED <<draw_args, parse_vars, series_vars, sample_vars, build_vars,
                   poly_vars, file_vars>>

DrawTideWaveformPortrait ==
    /\ draw_args.plot = "portrait"
    /\ drawing = NoDrawing
    /\ \E parsed \in {portrait_events(draw_args)} :
          drawing' = draw_tide_waveform_portrait(draw_args, parsed)
    /\ UNCHANGED <<draw_args, parse_vars, series_vars, sample_vars, build_vars,
                   poly_vars, file_vars>>

StageOnlyPlot ==
    /\ draw_args.plot = "stage_only"
    /\ drawing = NoDrawing
    /\ \E events_ \in {stage_only_events(draw_args)} :
          drawing' = stage_only_plot(draw_args, events_)
    /\ UNCHANGED <<draw_args, parse_vars, series_vars, sample_vars, build_vars,
                   poly_vars, file_vars>>

DrawNext ==
    \/ \E numpy \in BOOLEAN : DrawTideWaveform(numpy)
    \/ DrawTideWaveformPortrait
    \/ StageOnlyPlot

SpecDraw == DrawInit /\ [][DrawNext]_vars

\* the series behind each curve of the plot that was asked for
PlotSeries ==
    IF draw_args.plot = "usgs" THEN display_series(draw_args)
    ELSE IF draw_args.plot = "portrait"
         THEN [c \in Curves |-> SortEvents(portrait_events(draw_args))]
         ELSE [c \in Curves |-> stage_only_events(draw_args)]

\* the strategy each curve of the plot is interpolated with
PlotStrategy ==
    [c \in Curves |->
        IF draw_args.plot = "usgs" THEN (IF c = "jenner" THEN "poly" ELSE "half_sine")
        ELSE IF draw_args.plot = "portrait" THEN (IF c = "gr" THEN "half_sine" ELSE "none")
        ELSE (IF c = "jenner" THEN "linear" ELSE "none")]

\* the step and the end of the sampling loop of the plot
PlotLoop ==
    IF draw_args.plot = "usgs" THEN usgs_layout
    ELSE IF draw_args.plot = "portrait" THEN portrait_layout ELSE stage_only_layout

\* the minutes 0, step, 2 * step, ... the sampling loop visits
SampledMinutes == { m \in 0..DayMinutes : m % PlotLoop.step = 0 /\ m < PlotLoop.stop }

\* the minutes of the loop at which interpolation over series evs returns a value
MinutesWithValue(strategy, evs) ==
    IF strategy = "none" THEN {}
    ELSE { m \in SampledMinutes : curve_value(strategy, m, evs, FALSE) # None }

Minutes(pts) == { pts[k][1] : k \in 1..Len(pts) }

\* C16: the sampler emits points for strictly increasing minutes of the loop
\* 0, step, 2 * step, ..., all inside [0, 1440], starting at minute 0 when
\* that minute has a value; it emits exactly one point for every sampled
\* minute at which interpolation returns a value and none for a minute at
\* which it returns None.
C16_SamplerContract ==
    drawing.outcome = "drawn" =>
        \A series \in {PlotSeries} : \A c \in Curves :
            \A pts \in {drawing.points[c]} :
                /\ \A k \in 1..(Len(pts) - 1) : pts[k][1] < pts[k + 1][1]
                /\ Minutes(pts) \subseteq 0..DayMinutes
                /\ Minutes(pts) = MinutesWithValue(PlotStrategy[c], series[c])
                /\ (0 \in Minutes(pts)) => pts[1][1] = 0

\* the display test drew its tide curves over the whole day, from minute 0 to
\* minute 1440, and emitted nothing for a stage series of one measurement
C16_Witness ==
    /\ draw_args.plot = "usgs"
    /\ drawing.outcome = "drawn"
    /\ draw_args.jenner = OneStage
    /\ drawing.points["jenner"] = <<>>
    /\ Len(drawing.points["gr"]) = 97
    /\ drawing.points["gr"][1][1] = 0
    /\ drawing.points["gr"][97][1] = DayMinutes

\* every point of curve c was mapped with the one geometry of the box
MappedWith(g, pts) ==
    \A k \in 1..Len(pts) :
        /\ pts[k][3] = pixel_x(pts[k][1], g)
        /\ pts[k][4] = pixel_y(pts[k][2], g)

\* x <= y, by the sign of the difference
NotAbove(x, y) == RSub(x, y)[1] <= 0

\* x does not decrease with the minute, y does not increase with the value,
\* and a value inside [h_min, h_max] lands inside the box
MonotoneInside(g, pts) ==
    /\ \A j, k \in 1..Len(pts) :
          /\ pts[j][1] <= pts[k][1] => pts[j][3] <= pts[k][3]
          /\ NotAbove(pts[j][2], pts[k][2]) => pts[j][4] >= pts[k][4]
    /\ \A k \in 1..Len(pts) :
          (NotAbove(g.h_min, pts[k][2]) /\ NotAbove(pts[k][2], g.h_max)) =>
              (g.top <= pts[k][4] /\ pts[k][4] <= g.bottom)

\* minute 0 on the left edge, minute 1440 on the right edge, h_min on the
\* bottom edge, h_max on the top edge
EdgesMapped(g) ==
    /\ pixel_x(0, g) = g.left
    /\ pixel_x(DayMinutes, g) = g.right
    /\ pixel_y(g.h_min, g) = g.bottom
    /\ pixel_y(g.h_max, g) = g.top

\* C17: in the waveform plots minute 0 maps to the left edge of the box and
\* minute 1440 to the right edge, x non-decreasing in the minute; h_min maps to
\* the bottom edge and h_max to the top edge, y non-increasing in the value;
\* values in [h_min, h_max] = [-2, 8] land inside the box; all curves of the
\* box are mapped with this one fixed range.
C17_CoordinateMapping ==
    (draw_args.plot \in {"usgs", "portrait"} /\ drawing.outcome = "drawn") =>
        \A g \in {drawing.g} :
            /\ g.h_min = Num(-2) /\ g.h_max = Num(8)
            /\ EdgesMapped(g)
            /\ \A c \in Curves : \A pts \in {drawing.points[c]} :
                  MappedWith(g, pts) /\ MonotoneInside(g, pts)

\* C18: in the display test every curve whose sampled point list would have
\* fewer than 2 points gets a no-data text and no line segment, every curve
\* with at least 2 points gets its line segments even when another curve of
\* the plot has insufficient data, and no segment indexes past the point list.
C18_PerCurvePlaceholder ==
    (draw_args.plot = "usgs" /\ drawing.outcome \in {"drawn", "text"}) =>
        \A series \in {PlotSeries} : \A c \in Curves :
            \A n \in {Cardinality(MinutesWithValue(PlotStrategy[c], series[c]))} :
                /\ n < 2 => (drawing.text # <<>> /\ drawing.lines[c] = <<>>)
                /\ n >= 2 => drawing.lines[c] # <<>>
                /\ \A k \in 1..Len(drawing.lines[c]) :
                      drawing.lines[c][k][2] <= Len(drawing.points[c])

-----------------------------------------------------------------------------
(* The data file: fetcher.py writes tides.json, display_gui_eink_portrait.py
   polls it.  The two run as separate processes; every file-system call of
   either is one step, and the steps interleave freely.  A file's content is
   Absent, Empty (created or truncated by open(.., "w"), nothing written yet)
   or the complete JSON text of one snapshot.  Both documents are far smaller
   than the buffer of a Python text file, so json.dump reaches the file in one
   write when the with-block closes it.                                      *)

\* bound: save_json calls of the fetcher in one behaviour
MaxSaves == 3

Absent == <<"absent">>
Empty == <<"empty">>

\* the complete JSON text of snapshot v; snapshot 0 is DataValidator.TEMPLATE
Snapshot(v) == <<"json", v>>

\* os.path.exists
exists(file) == file # Absent

\* json.load on the content an open(.., "r") finds
json_load(file) == IF Len(file) = 2 THEN file ELSE Raise

FileInit ==
    /\ ParseIdle
    /\ SampleIdle
    /\ BuildIdle
    /\ DrawIdle
    /\ PolyIdle
    /\ kind = "tide"
    /\ prior = <<>> /\ today = <<>> /\ next = <<>>
    /\ events = <<>>
    /\ status = "input"
    /\ t_min = 0
    /\ result = NoResult
    /\ predicted = NoPrediction
    /\ FetcherIdle
    /\ \E first_run \in BOOLEAN :
          fs = [phase |-> "run", first_run |-> first_run,
                data_file |-> IF first_run THEN Absent ELSE Snapshot(0),
                temp_file |-> Absent,
                mtime |-> IF first_run THEN 0 ELSE 1,
                saves |-> 0,
                fetcher |-> "fetch_cycle",
                display |-> "main", seen_mtime |-> 0, last_mtime |-> 0,
                read |-> Unset, printed |-> <<>>, drawn_at |-> 0, redrawn |-> FALSE]

FileUnchanged ==
    UNCHANGED <<parse_vars, series_vars, sample_vars, build_vars, draw_vars, poly_vars,
                fetcher>>

\* fetch_cycle, "Load baseline": an existing file is read, a missing one is
\* created from the template
FetchCycle ==
    /\ fs.phase = "run" /\ fs.fetcher = "fetch_cycle"
    /\ fs' = [fs EXCEPT !.fetcher = IF exists(fs.data_file) THEN "save_json"
                                    ELSE "create_template_if_missing"]
    /\ FileUnchanged

\* create_template_if_missing up to open(data_file, "w"): the file exists and
\* is empty from here on
CreateTemplateOpen ==
    /\ fs.phase = "run" /\ fs.fetcher = "create_template_if_missing"
    /\ fs' = IF exists(fs.data_file)
             THEN [fs EXCEPT !.fetcher = "save_json"]
             ELSE [fs EXCEPT !.data_file = Empty, !.mtime = @ + 1,
                             !.fetcher = "template_dump"]
    /\ FileUnchanged

\* json.dump(TEMPLATE, f) and the end of the with-block
CreateTemplateDump ==
    /\ fs.phase = "run" /\ fs.fetcher = "template_dump"
    /\ fs' = [fs EXCEPT !.data_file = Snapshot(0), !.mtime = @ + 1,
                        !.fetcher = "save_json"]
    /\ FileUnchanged

\* save_json up to open(temp_file, "w"); ensure_backup only reads the data file
SaveJsonOpenTemp ==
    /\ fs.phase = "run" /\ fs.fetcher = "save_json"
    /\ fs.saves < MaxSaves
    /\ fs' = [fs EXCEPT !.temp_file = Empty, !.fetcher = "temp_dump"]
    /\ FileUnchanged

\* json.dump(data, f) into the temporary file and the end of the with-block
SaveJsonDump ==
    /\ fs.phase = "run" /\ fs.fetcher = "temp_dump"
    /\ fs' = [fs EXCEPT !.temp_file = Snapshot(fs.saves + 1), !.fetcher = "os.replace"]
    /\ FileUnchanged

\* the write fails: the except branch removes the temporary file
SaveJsonFailed ==
    /\ fs.phase = "run" /\ fs.fetcher = "temp_dump"
    /\ fs' = [fs EXCEPT !.temp_file = Absent, !.saves = @ + 1, !.fetcher = "save_json"]
    /\ FileUnchanged

\* os.replace(temp_file, DATA_FILE); another save of the cycle or the next
\* cycle follows
SaveJsonReplace ==
    /\ fs.phase = "run" /\ fs.fetcher = "os.replace"
    /\ \E then \in {"save_json", "fetch_cycle"} :
          fs' = [fs EXCEPT !.data_file = fs.temp_file, !.temp_file = Absent,
                           !.mtime = @ + 1, !.saves = @ + 1, !.fetcher = then]
    /\ FileUnchanged

\* main of the display, start of an iteration: exists, getmtime and the
\* comparison with last_mtime
DisplayPoll ==
    /\ fs.phase = "run" /\ fs.display = "main"
    /\ exists(fs.data_file)
    /\ fs.mtime > fs.last_mtime
    /\ fs' = [fs EXCEPT !.seen_mtime = fs.mtime, !.display = "json.load"]
    /\ FileUnchanged

\* main of the display, the try block: open, json.load, render, display,
\* last_mtime; an exception of the load, the renderer or the panel is printed
\* and last_mtime stays.  drawn_at is the modification count of the file an
\* update has put on the screen, redrawn whether the update before it had
\* shown that same file.
DisplayLoad ==
    /\ fs.phase = "run" /\ fs.display = "json.load"
    /\ \E data \in {json_load(fs.data_file)}, rendered \in BOOLEAN :
          fs' = IF data = Raise \/ ~rendered
                THEN [fs EXCEPT !.read = fs.data_file, !.printed = <<"Error">>,
                                !.display = "main"]
                ELSE [fs EXCEPT !.read = fs.data_file, !.printed = <<"Update Complete">>,
                                !.last_mtime = fs.seen_mtime,
                                !.drawn_at = fs.mtime,
                                !.redrawn = (fs.drawn_at = fs.mtime),
                                !.display = "main"]
    /\ FileUnchanged

FileNext ==
    \/ FetchCycle
    \/ CreateTemplateOpen
    \/ CreateTemplateDump
    \/ SaveJsonOpenTemp
    \/ SaveJsonDump
    \/ SaveJsonFailed
    \/ SaveJsonReplace
    \/ DisplayPoll
    \/ DisplayLoad

SpecFile == FileInit /\ [][FileNext]_vars

\* the display has read the data file
DisplayHasRead == fs.phase = "run" /\ fs.read # Unset

\* C19: every read of tides.json by the display observes a complete file
\* produced by one finished write (the template or a snapshot that save_json
\* has put in place), never an empty or partially written one, on every path
\* on which the fetcher writes the file, first-run template creation included.
C19_DisplayReadsCompleteFile ==
    DisplayHasRead =>
        \E v \in 0..MaxSaves + 1 : fs.read = Snapshot(v) /\ v <= fs.saves

-----------------------------------------------------------------------------
(* Empty day buckets in the three-bucket merge *)

\* an entry both parsers keep
EntryKept(k, e) ==
    IF k = "tide" THEN WellFormed(e) ELSE e.minutes # None /\ e.stage # None

\* the event a kept entry of the bucket with this offset stands for
EntryEvent(k, e, offset) ==
    IF k = "tide" THEN <<time_str_to_minutes(e[2])[1] + offset, height_of(e[3])>>
    ELSE <<e.minutes[1] + offset, e.stage>>

\* the events of the three buckets, in bucket order
BucketEvents ==
    [i \in 1..Len(prior) |-> EntryEvent(kind, prior[i], -DayMinutes)]
        \o [i \in 1..Len(today) |-> EntryEvent(kind, today[i], 0)]
        \o [i \in 1..Len(next) |-> EntryEvent(kind, next[i], DayMinutes)]

Occurrences(s, x) == Cardinality({i \in 1..Len(s) : s[i] = x})

SameEvents(s, b) ==
    /\ Len(s) = Len(b)
    /\ \A i \in 1..Len(b) : Occurrences(s, b[i]) = Occurrences(b, b[i])

Ascending(s) == \A i \in 1..(Len(s) - 1) : ~EvLess(s[i + 1], s[i])

\* a merge has run on buckets of kept entries, at least one bucket empty
EmptyBucketMerged ==
    /\ status = "built" /\ build # NoBuild
    /\ prior = <<>> \/ today = <<>> \/ next = <<>>
    /\ \A bucket \in {prior, today, next} :
          \A i \in 1..Len(bucket) : EntryKept(kind, bucket[i])

\* C20: for any combination of empty day buckets, all three empty included,
\* series construction completes without error and the series holds exactly
\* the events of the non-empty buckets, sorted ascending.
C20_EmptyBucketsMerged ==
    EmptyBucketMerged =>
        /\ build.loaded = "ok"
        /\ build.all_events = events
        /\ SameEvents(events, BucketEvents)
        /\ Ascending(events)

-----------------------------------------------------------------------------
(* retry_request of fetcher.py: one HTTP GET per loop pass, a sleep between
   passes.  gets is the outcome of every requests.get so far, sleeps every
   time.sleep so far with the number of the attempt it followed.            *)

MAX_RETRIES == 3
RETRY_DELAY == 2

\* bound: the max_retries argument
MaxRetriesArg == 4

\* outcomes of requests.get followed by raise_for_status: a good response, or
\* an exception; HTTPError and TooManyRedirects are RequestExceptions that
\* are neither Timeout nor ConnectionError
GetOutcomes == {"response", "Timeout", "ConnectionError", "HTTPError", "TooManyRedirects"}

\* the except clauses that go on to the next loop pass
retried_alt(exc) == exc \in {"Timeout", "ConnectionError", "HTTPError"}
retried(exc) == exc \in {"Timeout", "ConnectionError"}

\* "if attempt < max_retries - 1"
sleeps_before_next_alt(attempt, max_retries) == attempt < max_retries
sleeps_before_next(attempt, max_retries) == attempt < max_retries - 1

\* wait = RETRY_DELAY * (2 ** attempt)
wait_of(attempt) == RETRY_DELAY * (2 ^ attempt)

\* the response object of the n-th requests.get
Response(n) == <<"response", n>>

FetcherOnly ==
    /\ ParseIdle
    /\ SeriesIdle
    /\ SampleIdle
    /\ BuildIdle /\ DrawIdle /\ PolyIdle
    /\ fs = NoFs

FetcherUnchanged ==
    UNCHANGED <<parse_vars, series_vars, sample_vars, build_vars, draw_vars, poly_vars, fs>>

RetryInit ==
    /\ FetcherOnly
    /\ \E max_retries \in 0..MaxRetriesArg :
          fetcher = [call |-> "retry_request", max_retries |-> max_retries,
                     attempt |-> 0, pc |-> "for", gets |-> <<>>, sleeps |-> <<>>,
                     returned |-> Unset]

\* "for attempt in range(max_retries)": the next pass, or the code after the
\* loop: print "Failed after ..." and return None
RetryFor ==
    /\ fetcher.call = "retry_request" /\ fetcher.pc = "for"
    /\ fetcher' = IF fetcher.attempt < fetcher.max_retries
                  THEN [fetcher EXCEPT !.pc = "requests.get"]
                  ELSE [fetcher EXCEPT !.pc = "return", !.returned = None]
    /\ FetcherUnchanged

\* the try block and its except clauses, up to the sleep
RetryGet ==
    /\ fetcher.call = "retry_request" /\ fetcher.pc = "requests.get"
    /\ \E outcome \in GetOutcomes :
          fetcher' =
             IF outcome = "response"
             THEN [fetcher EXCEPT !.gets = Append(@, outcome), !.pc = "return",
                                  !.returned = Response(Len(fetcher.gets) + 1)]
             ELSE IF retried(outcome)
             THEN IF sleeps_before_next(fetcher.attempt, fetcher.max_retries)
                  THEN [fetcher EXCEPT !.gets = Append(@, outcome), !.pc = "time.sleep"]
                  ELSE [fetcher EXCEPT !.gets = Append(@, outcome), !.pc = "for",
                                       !.attempt = @ + 1]
             ELSE [fetcher EXCEPT !.gets = Append(@, outcome), !.pc = "return",
                                  !.returned = None]
    /\ FetcherUnchanged

\* time.sleep(wait), then the next pass
RetrySleep ==
    /\ fetcher.call = "retry_request" /\ fetcher.pc = "time.sleep"
    /\ fetcher' = [fetcher EXCEPT
                      !.sleeps = Append(@, [after |-> Len(fetcher.gets),
                                            wait |-> wait_of(fetcher.attempt)]),
                      !.attempt = @ + 1, !.pc = "for"]
    /\ FetcherUnchanged

RetryNext ==
    \/ RetryFor
    \/ RetryGet
    \/ RetrySleep

\* the function keeps running until it returns: a sleep ends, a request
\* returns or raises within its timeout
SpecRetry == RetryInit /\ [][RetryNext]_vars /\ WF_vars(RetryNext)

RetryReturned == fetcher.call = "retry_request" /\ fetcher.pc = "return"

LastGet == fetcher.gets[Len(fetcher.gets)]

\* the exceptions after which another attempt may follow
Transient == {"Timeout", "ConnectionError"}

\* what retry_request has done so far agrees with the contract of C21
RetryContract ==
    fetcher.call = "retry_request" =>
        /\ Len(fetcher.gets) <= fetcher.max_retries
        /\ \A k \in 1..(Len(fetcher.gets) - 1) : fetcher.gets[k] \in Transient
        /\ fetcher.returned # Unset <=> fetcher.pc = "return"
        /\ (fetcher.pc # "return" /\ fetcher.gets # <<>>) => LastGet \in Transient
        /\ RetryReturned =>
              IF fetcher.gets = <<>> THEN fetcher.returned = None /\ fetcher.max_retries = 0
              ELSE IF LastGet = "response"
                   THEN fetcher.returned = Response(Len(fetcher.gets))
              ELSE IF LastGet \in Transient
                   THEN fetcher.returned = None
                        /\ Len(fetcher.gets) = fetcher.max_retries
              ELSE fetcher.returned = None

\* C21: retry_request terminates after at most max_retries HTTP attempts; it
\* returns the response of the first successful attempt and makes no attempt
\* after it, retries only after a Timeout or ConnectionError, returns None at
\* once on any other RequestException, and returns None when all max_retries
\* attempts failed.
C21_RetryTerminates == []RetryContract /\ <>RetryReturned

\* a response returned by the third attempt, after two retried failures
C21_Witness ==
    /\ RetryReturned
    /\ fetcher.gets = <<"Timeout", "ConnectionError", "response">>
    /\ fetcher.returned = Response(3)

\* C22: between two consecutive attempts the wait is RETRY_DELAY * 2^attempt
\* seconds (2, then 4 with the defaults), waits strictly increase, a wait
\* happens only when another attempt follows, and none happens after the
\* final attempt or after a success.
C22_ExponentialBackoff ==
    fetcher.call = "retry_request" =>
        /\ \A i \in 1..Len(fetcher.sleeps) :
              /\ fetcher.sleeps[i].after = i
              /\ fetcher.sleeps[i].wait = RETRY_DELAY * (2 ^ (i - 1))
              /\ i < fetcher.max_retries
              /\ fetcher.gets[i] # "response"
              /\ i > 1 => fetcher.sleeps[i].wait > fetcher.sleeps[i - 1].wait
        /\ Len(fetcher.sleeps) >= Len(fetcher.gets) - 1
        /\ RetryReturned => Len(fetcher.sleeps) = Max(Len(fetcher.gets) - 1, 0)
        /\ fetcher.max_retries = MAX_RETRIES =>
              \A i \in 1..Len(fetcher.sleeps) : fetcher.sleeps[i].wait = <<2, 4>>[i]

\* all attempts of a default call failed: two waits, 2 s and 4 s, none after
\* the third attempt
C22_Witness ==
    /\ RetryReturned
    /\ fetcher.max_retries = MAX_RETRIES
    /\ Len(fetcher.gets) = 3 /\ fetcher.returned = None /\ LastGet \in Transient
    /\ Len(fetcher.sleeps) = 2

-----------------------------------------------------------------------------
(* fetch_cycle of fetcher.py, phase 2 (tides).  One action is one whole
   fetch_cycle call, restricted to the keys the tide phase reads and writes;
   the saves of phase 1 store the loaded data with those keys untouched.
   Cycles are numbered, dates are day numbers that never decrease, and the
   dictionaries a NOAA fetch returns in cycle n are identified by n.         *)

\* bounds: fetch_cycle calls in one behaviour, and calendar dates
MaxCycles == 3
MaxDates == 2

TideKeys == {"bodega_tides", "fort_ross", "goat_rock", "jenner_beach", "estuary",
             "last_tide_time"}

\* what phase 2 stores in cycle n
Fetched(n) == <<"fetched", n>>

\* data = {}
EmptyData == [k \in TideKeys \cup {"tide_success"} |-> Absent]

\* DataValidator.TEMPLATE: the four station dictionaries present and empty
TemplateData ==
    [k \in TideKeys \cup {"tide_success"} |->
        IF k \in {"bodega_tides", "fort_ross", "goat_rock", "estuary"}
        THEN <<"{}">> ELSE Absent]

\* tides.json as the next load will find it
JsonFile(data) == [state |-> "json", data |-> data]
MissingFile == [state |-> "missing", data |-> EmptyData]
CorruptFile == [state |-> "corrupt", data |-> EmptyData]

\* "Load baseline": data of an existing, parseable file; {} after a
\* JSONDecodeError and after creating the template
load_baseline(file) == IF file.state = "json" THEN file.data ELSE EmptyData

\* the file after "Load baseline"
after_load(file) == IF file.state = "missing" THEN JsonFile(TemplateData) ELSE file

\* "if current_date_str != last_tide_fetch_date or 'bodega_tides' not in data"
tide_phase_due(current_date_str, last_tide_fetch_date_, data) ==
    current_date_str # last_tide_fetch_date_ \/ data["bodega_tides"] = Absent

\* "if bodega_dict and fort_ross_dict": data.update(...), the derived
\* stations; else data["tide_success"] = False
tide_phase(data, n, bodega_dict, fort_ross_dict) ==
    IF bodega_dict /\ fort_ross_dict
    THEN [k \in TideKeys \cup {"tide_success"} |->
             IF k = "tide_success" THEN <<"True">> ELSE Fetched(n)]
    ELSE [data EXCEPT !["tide_success"] = <<"False">>]

NoCycle == [n |-> 0]

\* one fetch_cycle: the record of what it did, from its inputs
fetch_cycle(f, n, date, phase1_saved, bodega_dict, fort_ross_dict) ==
    LET loaded == load_baseline(f.file)
        due == tide_phase_due(date, f.last_tide_fetch_date, loaded)
        fetched == due /\ bodega_dict /\ fort_ross_dict
        data == IF due THEN tide_phase(loaded, n, bodega_dict, fort_ross_dict)
                ELSE loaded
    IN  [n |-> n, date |-> date, loaded |-> loaded, due |-> due,
         bodega_dict |-> due /\ bodega_dict, fort_ross_dict |-> due /\ fort_ross_dict,
         data |-> data,
         file |-> IF fetched THEN JsonFile(data)
                  ELSE IF phase1_saved THEN JsonFile(loaded)
                  ELSE after_load(f.file),
         last_tide_fetch_date |-> IF fetched THEN date ELSE f.last_tide_fetch_date]

TideInit ==
    /\ FetcherOnly
    /\ \E file \in {MissingFile, JsonFile(TemplateData)} :
          fetcher = [call |-> "fetch_cycle", date |-> 1, last_tide_fetch_date |-> 0,
                     file |-> file, synced |-> {}, prev |-> NoCycle, cycle |-> NoCycle]

\* fetch_cycle from the main loop, the date the same or later than before
FetchCycleTides ==
    /\ fetcher.call = "fetch_cycle"
    /\ fetcher.cycle.n < MaxCycles
    /\ \E date \in fetcher.date..MaxDates, phase1_saved, bodega_dict, fort_ross_dict \in BOOLEAN :
          \E c \in {fetch_cycle(fetcher, fetcher.cycle.n + 1, date, phase1_saved,
                                bodega_dict, fort_ross_dict)} :
             fetcher' = [fetcher EXCEPT
                            !.date = date,
                            !.last_tide_fetch_date = c.last_tide_fetch_date,
                            !.file = c.file,
                            !.synced = IF c.bodega_dict /\ c.fort_ross_dict
                                       THEN @ \cup {date} ELSE @,
                            !.prev = fetcher.cycle,
                            !.cycle = c]
    /\ FetcherUnchanged

\* tides.json is damaged or removed between two cycles
FileDamaged ==
    /\ fetcher.call = "fetch_cycle"
    /\ fetcher.cycle.n \in 1..(MaxCycles - 1)
    /\ fetcher.file.state = "json"
    /\ \E file \in {MissingFile, CorruptFile} : fetcher' = [fetcher EXCEPT !.file = file]
    /\ FetcherUnchanged

TideNext ==
    \/ FetchCycleTides
    \/ FileDamaged

SpecTide == TideInit /\ [][TideNext]_vars

CycleRan == fetcher.call = "fetch_cycle" /\ fetcher.cycle.n > 0

\* the last cycle fetched both stations
BothFetched(c) == c.n > 0 /\ c.due /\ c.bodega_dict /\ c.fort_ross_dict

\* the last cycle attempted the tide phase and a station returned nothing
FetchFailed(c) == c.n > 0 /\ c.due /\ ~(c.bodega_dict /\ c.fort_ross_dict)

\* C23: the tide phase is once per day: after a cycle on date D in which both
\* station fetches returned data, every later cycle on date D whose loaded
\* data still has bodega_tides skips the tide phase; last_tide_fetch_date is
\* set to D only in such a successful cycle, and after a cycle where either
\* fetch returned nothing the next cycle attempts the tide phase again.
C23_TidePhaseOncePerDay ==
    CycleRan =>
        /\ (/\ fetcher.cycle.date \in fetcher.synced
            /\ ~BothFetched(fetcher.cycle)
            /\ fetcher.cycle.loaded["bodega_tides"] # Absent) => ~fetcher.cycle.due
        /\ fetcher.last_tide_fetch_date # 0 => fetcher.last_tide_fetch_date \in fetcher.synced
        /\ BothFetched(fetcher.cycle) => fetcher.last_tide_fetch_date = fetcher.cycle.date
        /\ FetchFailed(fetcher.prev) => fetcher.cycle.due

-----------------------------------------------------------------------------
(* The poll loop of the display against the fetcher's writes *)

\* a poll goes on to the try block only for an existing file newer than
\* last_mtime; after a failed update the next poll goes on to it again
PollGuard ==
    fs.phase = "run" =>
        /\ fs.display = "json.load" =>
              exists(fs.data_file) /\ fs.seen_mtime > fs.last_mtime
        /\ (fs.display = "main" /\ fs.printed = <<"Error">>) =>
              exists(fs.data_file) /\ fs.mtime > fs.last_mtime

\* last_mtime moves only at the end of a try block that completed, to the
\* time read by the poll before it
LastMtimeAdvance ==
    (fs.phase = "run" /\ fs'.last_mtime # fs.last_mtime) =>
        /\ fs.display = "json.load" /\ fs'.display = "main"
        /\ fs'.printed = <<"Update Complete">>
        /\ fs'.last_mtime = fs.seen_mtime

\* no update puts on the screen a file that has not changed since the update
\* before it did
UnchangedNotRedrawn == fs.phase = "run" => ~fs.redrawn

\* C25: a render is started only when tides.json exists and its modification
\* time is strictly greater than last_mtime; last_mtime is advanced to that
\* time only after load, render and display completed without exception; an
\* unchanged file is not redrawn after a successful update, and a file version
\* whose update failed is retried on the following poll.
C25_PollLoop == [](PollGuard /\ UnchangedNotRedrawn) /\ [][LastMtimeAdvance]_vars

-----------------------------------------------------------------------------
(* fetch_cycle of fetcher.py, the stage history of phase 1: the update from
   the USGS history (or the fallback reading) and the purge.  Dates are day
   numbers, now is a day number and a minute of that day; a date key is
   either the text of a date or text that strptime rejects.                  *)

\* bounds: the calendar days a behaviour spans, and its fetch_cycle calls
MaxPurgeDay == 5
MaxPurgeCycles == 2

\* the key strftime("%Y-%m-%d") writes for a day
DateKey(day) == <<"%Y-%m-%d", day>>

\* keys that are no date: strptime raises ValueError
TextKeys == {<<"latest">>}

\* datetime.strptime(date_key, "%Y-%m-%d"): midnight of that day, in minutes
\* since day 0
strptime_Ymd(date_key) ==
    IF Len(date_key) = 2 THEN <<"datetime", date_key[2] * DayMinutes>> ELSE Raise

\* (datetime.now() - dt_key).days: whole days, rounded down
timedelta_days(now, dt_key) ==
    ((now.day * DayMinutes + now.minute) - dt_key[2]) \div DayMinutes

\* "if (datetime.now() - dt_key).days > 2"
too_old_alt(days) == days >= 2
too_old(days) == days > 2

\* the purge loop: date keys that parse and are too old are deleted
purge(history, now) ==
    { date_key \in history :
         \/ strptime_Ymd(date_key) = Raise
         \/ ~too_old(timedelta_days(now, strptime_Ymd(date_key))) }

\* update from the history fetch, else the fallback reading under today's key
update_stage_history(history, now, iv_history, j_stage) ==
    IF iv_history # {} THEN history \cup iv_history
    ELSE IF j_stage # None THEN history \cup {DateKey(now.day)}
    ELSE history

PurgeDays == 1..MaxPurgeDay

\* the days a P2D history can hold
HistoryDays(now) == {d \in PurgeDays : d \in (now.day - 2)..now.day}

PurgeInit ==
    /\ FetcherOnly
    /\ \E history \in SUBSET ({DateKey(d) : d \in PurgeDays} \cup TextKeys),
          day \in 1..(MaxPurgeDay - 1), minute \in {0, 720} :
          fetcher = [call |-> "purge", cycles |-> 0,
                     now |-> [day |-> day, minute |-> minute],
                     jenner_stage_history |-> history,
                     updated |-> {}, purged |-> FALSE]

\* fetch_cycle at a later time, lines 417-448
FetchCyclePurge ==
    /\ fetcher.call = "purge"
    /\ fetcher.cycles < MaxPurgeCycles
    /\ \E day \in fetcher.now.day..MaxPurgeDay, minute \in {0, 720},
          j_stage \in {None, Num(5)} :
          \E now \in {[day |-> day, minute |-> minute]} :
             \E iv_days \in SUBSET HistoryDays(now) :
                \E updated \in {update_stage_history(fetcher.jenner_stage_history, now,
                                   {DateKey(d) : d \in iv_days}, j_stage)} :
                   fetcher' = [fetcher EXCEPT
                                  !.cycles = @ + 1,
                                  !.now = now,
                                  !.updated = updated,
                                  !.jenner_stage_history = purge(updated, now),
                                  !.purged = TRUE]
    /\ FetcherUnchanged

PurgeNext == FetchCyclePurge

SpecPurge == PurgeInit /\ [][PurgeNext]_vars

\* the day of a date key
DayOf(date_key) == date_key[2]

IsDateKey(date_key) == date_key \notin TextKeys

\* C26: after the purge step of every fetch_cycle every date key that parses
\* and lies more than 2 whole days before now has been removed, and the keys
\* for today, yesterday and the day before yesterday are never removed.
C26_StageHistoryThreeDays ==
    (fetcher.call = "purge" /\ fetcher.purged) =>
        /\ fetcher.jenner_stage_history \subseteq fetcher.updated
        /\ \A k \in fetcher.jenner_stage_history :
              IsDateKey(k) => DayOf(k) >= fetcher.now.day - 2
        /\ \A k \in fetcher.updated :
              (IsDateKey(k) /\ DayOf(k) \in (fetcher.now.day - 2)..fetcher.now.day)
                  => k \in fetcher.jenner_stage_history

\* a purge that removed a key three days old and kept the key two days old
C26_Witness ==
    /\ fetcher.call = "purge" /\ fetcher.purged
    /\ fetcher.now.day = 4
    /\ DateKey(1) \in fetcher.updated /\ DateKey(1) \notin fetcher.jenner_stage_history
    /\ DateKey(2) \in fetcher.jenner_stage_history
    /\ <<"latest">> \in fetcher.jenner_stage_history

-----------------------------------------------------------------------------
(* fetch_cycle of fetcher.py, the observed water level of phase 1: the
   deviation sample, the cut to the last 48, latest_deviation.  One action
   is one whole fetch_cycle, restricted to the keys this phase reads and
   writes.  log is every sample that has reached tides.json, oldest first.  *)

KeepSamples == 48

\* bound: fetch_cycle calls in one behaviour
MaxDeviationCycles == 2

\* round(x, 2): the nearest multiple of 1/100, a tie to the even one
round2(x) ==
    LET n == x[1] * 100
        q == n \div x[2]
        twice == 2 * (n - q * x[2])
        up == twice > x[2] \/ (twice = x[2] /\ q % 2 = 1)
    IN  Norm(IF up THEN q + 1 ELSE q, 100)

\* data["deviation_samples"][-48:]
last_samples_alt(samples) == SubSeq(samples, 1, Min(Len(samples), KeepSamples))
last_samples(samples) == SubSeq(samples, Max(1, Len(samples) - KeepSamples + 1), Len(samples))

\* the entry appended for an observation
deviation_sample(water_ts, observed_level, predicted_level) ==
    [timestamp |-> water_ts, observed |-> round2(observed_level),
     predicted |-> round2(predicted_level),
     deviation |-> round2(RSub(observed_level, predicted_level))]

\* lines 477-491: append, cut, latest_deviation
store_deviation(data, water_ts, observed_level, predicted_level) ==
    [data EXCEPT
        !.deviation_samples = last_samples(Append(@, deviation_sample(water_ts,
                                  observed_level, predicted_level))),
        !.latest_deviation = round2(RSub(observed_level, predicted_level))]

\* today's Bodega predictions, when the data has them
TodayPreds == <<<<"Low", T0600AM, H10ft>>, <<"High", T1200PM, H50ft>>>>

T0730 == <<"0", "7", ":", "3", "0">>
T0900 == <<"0", "9", ":", "0", "0">>

\* data = {}
NoDeviationData == [bodega_tides |-> FALSE, deviation_samples |-> <<>>,
                    latest_deviation |-> None]

\* the water level part of one fetch_cycle on the loaded data: the data at
\* the end of the phase
water_level_phase(data, water_ts, observed_level, time_str_) ==
    LET today_preds == IF data.bodega_tides THEN TodayPreds ELSE <<>>
        predicted_level == interpolate_predicted_level(time_str_, today_preds)
    IN  IF observed_level = None \/ predicted_level = None THEN data
        ELSE store_deviation(data, water_ts, observed_level, predicted_level)

\* samples a file written by earlier cycles holds
EarlierSamples(k) ==
    [i \in 1..k |-> [timestamp |-> i, observed |-> Num(2), predicted |-> Num(2),
                     deviation |-> Num(0)]]

DeviationInit ==
    /\ FetcherOnly
    /\ \E k \in 0..KeepSamples :
          fetcher = [call |-> "deviation", cycles |-> 0,
                     file |-> [bodega_tides |-> TRUE,
                               deviation_samples |-> EarlierSamples(k),
                               latest_deviation |-> IF k = 0 THEN None ELSE Num(0)],
                     log |-> EarlierSamples(k)]

\* one fetch_cycle: the load (a corrupt file gives {}), the save of the river
\* data, the water level phase with its save, the save of the tide phase
FetchCycleWaterLevel ==
    /\ fetcher.call = "deviation"
    /\ fetcher.cycles < MaxDeviationCycles
    /\ \E corrupt, river_saved, saved, tides_saved \in BOOLEAN,
          observed_level \in {None, <<5, 2>>, <<2513, 1000>>},
          time_str_ \in {T0730, T0900} :
          \E loaded \in {IF corrupt THEN NoDeviationData ELSE fetcher.file} :
             \E data \in {water_level_phase(loaded, Len(fetcher.log) + 1,
                                            observed_level, time_str_)} :
                \E file \in {IF tides_saved THEN [data EXCEPT !.bodega_tides = TRUE]
                             ELSE IF saved /\ data # loaded THEN data
                             ELSE IF river_saved THEN loaded
                             ELSE fetcher.file} :
                   fetcher' = [fetcher EXCEPT
                      !.cycles = @ + 1,
                      !.file = file,
                      !.log = IF data # loaded /\ file.deviation_samples = data.deviation_samples
                              THEN Append(@, data.deviation_samples[Len(data.deviation_samples)])
                              ELSE @]
    /\ FetcherUnchanged

DeviationNext == FetchCycleWaterLevel

SpecDeviation == DeviationInit /\ [][DeviationNext]_vars

StoredSamples == fetcher.file.deviation_samples

\* C27: after any sequence of fetch_cycle calls deviation_samples never holds
\* more than 48 entries, the entries are the most recently appended ones in
\* append order, and latest_deviation equals the deviation of the last entry.
C27_DeviationSamples ==
    fetcher.call = "deviation" =>
        /\ Len(StoredSamples) <= 48
        /\ Len(StoredSamples) <= Len(fetcher.log)
        /\ \A i \in 1..Len(StoredSamples) :
              StoredSamples[i] = fetcher.log[Len(fetcher.log) - Len(StoredSamples) + i]
        /\ StoredSamples # <<>> =>
              fetcher.file.latest_deviation = StoredSamples[Len(StoredSamples)].deviation

\* fifty samples appended, the file holds the last 48 of them
C27_Witness ==
    /\ fetcher.call = "deviation"
    /\ Len(fetcher.log) = 50
    /\ Len(StoredSamples) = 48
    /\ StoredSamples[1].timestamp = 3
    /\ StoredSamples[48].deviation = <<51, 100>>
    /\ fetcher.file.latest_deviation = <<51, 100>>

-----------------------------------------------------------------------------
(* DataValidator.ensure_backup: a copy of the data file named after the
   second it is written in, then all but the 50 last names are removed.
   The clock counts seconds and never goes back; a name is the text
   strftime writes, here the minute and second fields "%M%S".               *)

KeepBackups == 50

\* bound: ensure_backup calls in one behaviour
MaxBackupCalls == 3

\* f"tides_{timestamp}.json" at this second
backup_name(clock) == Fmt2((clock \div 60) % 60) \o Fmt2(clock % 60)

\* the order of sorted() on the paths: character by character
RECURSIVE PathLess(_, _)
PathLess(a, b) ==
    IF Len(b) = 0 THEN FALSE
    ELSE IF Len(a) = 0 THEN TRUE
    ELSE IF a[1] # b[1] THEN DigitVal[a[1]] < DigitVal[b[1]]
    ELSE PathLess(Tail(a), Tail(b))

\* backups[:-50] of the sorted list: the names with 50 or more names after them
old_backups_alt(backups) ==
    {b \in backups : Cardinality({c \in backups : PathLess(c, b)}) >= KeepBackups}
old_backups(backups) ==
    {b \in backups : Cardinality({c \in backups : PathLess(b, c)}) >= KeepBackups}

\* ensure_backup on an existing data file: the directory afterwards and the
\* value returned; a data file that json.load rejects is not copied
ensure_backup(backups, clock, corrupt) ==
    IF corrupt THEN [backups |-> backups, returned |-> None]
    ELSE [backups |-> (backups \cup {backup_name(clock)})
                         \ old_backups(backups \cup {backup_name(clock)}),
          returned |-> backup_name(clock)]

\* the seconds at which the backups of an earlier run were written
EarlierClocks(k) == {2 * i : i \in 1..k}

BackupInit ==
    /\ FetcherOnly
    /\ \E k \in 0..KeepBackups :
          fetcher = [call |-> "ensure_backup", calls |-> 0, clock |-> 2 * k,
                     backups |-> {backup_name(c) : c \in EarlierClocks(k)},
                     written |-> EarlierClocks(k),
                     returned |-> Unset]

\* ensure_backup(DATA_FILE) from save_json, some seconds after the last call
EnsureBackup ==
    /\ fetcher.call = "ensure_backup"
    /\ fetcher.calls < MaxBackupCalls
    /\ \E wait \in 0..2, corrupt \in BOOLEAN :
          \E r \in {ensure_backup(fetcher.backups, fetcher.clock + wait, corrupt)} :
             fetcher' = [fetcher EXCEPT
                            !.calls = @ + 1,
                            !.clock = @ + wait,
                            !.backups = r.backups,
                            !.written = IF corrupt THEN @ ELSE @ \cup {fetcher.clock + wait},
                            !.returned = r.returned]
    /\ FetcherUnchanged

BackupNext == EnsureBackup

SpecBackup == BackupInit /\ [][BackupNext]_vars

\* the seconds whose backup is in the directory
KeptClocks == {c \in fetcher.written : backup_name(c) \in fetcher.backups}

-----------------------------------------------------------------------------
(* shift_time and the derived stations of fetch_cycle's tide phase: the lists
   of one date key of the two NOAA dictionaries, and the three lists derived
   from them.                                                                *)

\* shift_time(timestr, delta_minutes): strptime, add, strftime("%I:%M %p")
\* without the leading zero; the date of the sum is dropped; a string that
\* does not parse is returned as it is
shift_time(timestr, delta_minutes) ==
    LET t == strptime_IMp(timestr)
        shifted == (t[1] + delta_minutes) % DayMinutes
    IN  IF t = Raise THEN timestr
        ELSE Fmt12(shifted \div 60, shifted % 60)

\* "90 if l == 'High' else 60"
estuary_delta(l) == IF l = "High" THEN 90 ELSE 60

\* [(l, shift_time(t, 5), h) for l, t, h in tides]
open_coast(tides) ==
    [i \in 1..Len(tides) |-> <<tides[i][1], shift_time(tides[i][2], 5), tides[i][3]>>]

\* [(l, shift_time(t, 90 if l == "High" else 60), h) for l, t, h in tides]
estuary(tides) ==
    [i \in 1..Len(tides) |->
        <<tides[i][1], shift_time(tides[i][2], estuary_delta(tides[i][1])), tides[i][3]>>]

\* times of day of the predictions: <<hour, minute>>
TideTimes == {<<0, 10>>, <<3, 58>>, <<12, 0>>, <<22, 45>>, <<23, 58>>}

\* two predictions of one date, the earlier first
TidePairs == {p \in TideTimes \X TideTimes : p[1][1] < p[2][1]}

\* formatted_tides of get_noaa_tides_multiday for one date: one or two
\* predictions in chronological order
DayLists ==
    { <<<<l, Fmt12(t[1], t[2]), H50ft>>>> : l \in {"High", "Low"}, t \in TideTimes }
    \cup { <<<<"High", Fmt12(p[1][1], p[1][2]), H50ft>>,
              <<"Low", Fmt12(p[2][1], p[2][2]), H10ft>>>> : p \in TidePairs }
    \cup { <<<<"Low", Fmt12(p[1][1], p[1][2]), H10ft>>,
              <<"High", Fmt12(p[2][1], p[2][2]), H50ft>>>> : p \in TidePairs }

ShiftInit ==
    /\ FetcherOnly
    /\ \E fort_ross \in DayLists, bodega_tides \in DayLists :
          fetcher = [call |-> "shift_time", fort_ross |-> fort_ross,
                     bodega_tides |-> bodega_tides, derived |-> FALSE,
                     goat_rock |-> <<>>, jenner_beach |-> <<>>, estuary |-> <<>>]

\* fetch_cycle, "PRE-COMPUTE DERIVED STATIONS", for one date key
DeriveStations ==
    /\ fetcher.call = "shift_time"
    /\ ~fetcher.derived
    /\ fetcher' = [fetcher EXCEPT !.derived = TRUE,
                                  !.goat_rock = open_coast(fetcher.fort_ross),
                                  !.jenner_beach = open_coast(fetcher.fort_ross),
                                  !.estuary = estuary(fetcher.bodega_tides)]
    /\ FetcherUnchanged

ShiftNext == DeriveStations

SpecShift == ShiftInit /\ [][ShiftNext]_vars

\* minute of day of an entry's time string
MinuteOfDay(entry) == strptime_IMp(entry[2])[1]

\* every derived entry is its source entry delta minutes later in the day
ShiftedBy(derived_, source, fixed) ==
    /\ Len(derived_) = Len(source)
    /\ \A i \in 1..Len(source) :
          MinuteOfDay(derived_[i]) =
             MinuteOfDay(source[i]) + (IF fixed # 0 THEN fixed
                                       ELSE IF source[i][1] = "High" THEN 90 ELSE 60)

Chronological(tides) ==
    \A i \in 1..(Len(tides) - 1) : MinuteOfDay(tides[i]) <= MinuteOfDay(tides[i + 1])

\* C29: every derived entry stored under a date (goat_rock and jenner_beach =
\* Fort Ross time + 5 min; estuary = Bodega time + 90 min for High, + 60 min
\* for Low) has the source's minute of day plus the delta, so it never lands
\* earlier in its day than its source and each derived day list stays in
\* chronological order.
C29_DerivedShiftedWithinDay ==
    (fetcher.call = "shift_time" /\ fetcher.derived) =>
        /\ ShiftedBy(fetcher.goat_rock, fetcher.fort_ross, 5)
        /\ ShiftedBy(fetcher.jenner_beach, fetcher.fort_ross, 5)
        /\ ShiftedBy(fetcher.estuary, fetcher.bodega_tides, 0)
        /\ Chronological(fetcher.goat_rock)
        /\ Chronological(fetcher.jenner_beach)
        /\ Chronological(fetcher.estuary)

-----------------------------------------------------------------------------
(* The strategies on a sorted series of two or more points *)

\* the series is in ascending order of minute
AscendingByMinute(evs) ==
    \A i \in 1..(Len(evs) - 1) : evs[i][1] <= evs[i + 1][1]

====
